---- MODULE Spec2Model ----
(***************************************************************************)
(* Memory subsystem of SylviaAgent: MemoryService (memory-service.ts), the  *)
(* /api/memory route that calls it, and ReflectionService                  *)
(* (reflection-service.ts).                                                *)
(*                                                                         *)
(* Numbers: scores, decay rates and confidence scores are fixed-point      *)
(* values with SCALE units per 1.0 (1.0 = 10000, 0.05 = 500, 0.990 = 9900);*)
(* cosine similarities are rounded binary floating-point values, and text  *)
(* similarities are ratios of whole numbers.                               *)
(* Time is counted in whole hours since the start of the run.              *)
(***************************************************************************)
EXTENDS Integers, Sequences, FiniteSets, TLC

\* ------------------------------------------------------------------ bounds
MaxChunks == 2      \* chunks ever created in one run
MaxLinks  == 1      \* links ever created in one run
MaxSteps  == 5      \* calls and clock advances in one run
MaxReflections == 4 \* reflection rows ever created in one run
MaxPasses == 2      \* calls and clock advances in one run over a stocked store

\* --------------------------------------------------------- fixed point
SCALE == 10 ^ 4

\* a * b of two fixed-point numbers, rounded to the nearest unit
Mul(a, b) == (a * b + SCALE \div 2) \div SCALE

\* Math.pow(base, exp) for a fixed-point base in [0, 1] and whole exp >= 0
RECURSIVE Pow(_, _)
Pow(base, exp) ==
    IF exp = 0 THEN SCALE
    ELSE IF exp % 2 = 0
         THEN CHOOSE square \in {Mul(p, p) : p \in {Pow(base, exp \div 2)}} : TRUE
         ELSE Mul(base, Pow(base, exp - 1))

\* ------------------------------------------------------ program constants
\* types.ts MEMORY_BUCKET_NAMES
MEMORY_BUCKET_NAMES ==
    << "semantic_stm", "semantic_ltm", "procedural_stm", "procedural_ltm",
       "episodic_stm", "episodic_ltm", "diary_rl", "calendar_rl",
       "api_docs", "odds_ends" >>

\* types.ts MEMORY_DECAY_RATES
MEMORY_DECAY_RATES == [STM |-> 9900, LTM |-> 9990, RL |-> 9950]

\* initializeMemoryBuckets: bucketConfigs (name and bucketType of each)
bucketConfigs ==
    << [name |-> "semantic_stm",   bucketType |-> "STM"],
       [name |-> "semantic_ltm",   bucketType |-> "LTM"],
       [name |-> "procedural_stm", bucketType |-> "STM"],
       [name |-> "procedural_ltm", bucketType |-> "LTM"],
       [name |-> "episodic_stm",   bucketType |-> "STM"],
       [name |-> "episodic_ltm",   bucketType |-> "LTM"],
       [name |-> "diary_rl",       bucketType |-> "RL"],
       [name |-> "calendar_rl",    bucketType |-> "RL"],
       [name |-> "api_docs",       bucketType |-> "DOCS"],
       [name |-> "odds_ends",      bucketType |-> "MISC"] >>

DeleteThreshold == 500      \* applyMemoryDecay: newScore < 0.05
DefaultBoost    == 1000     \* boostMemory: boost = 0.1
DefaultLimit    == 10       \* getMemoriesFromBucket: limit = 10
DefaultMinScore == 1000     \* getMemoriesFromBucket: minScore = 0.1
DefaultStrength == 10000    \* createMemoryLink: strength = 1.0
DefaultSearchLimit == 20    \* searchMemories: limit = 20

\* column defaults of a new MemoryChunk row
DefaultScore       == 10000
DefaultAccessCount == 0

\* ------------------------------------------------------------- inputs
ChunkIds     == 1..MaxChunks
BucketInputs == {"semantic_stm", "semantic_ltm", "no_such_bucket"}
Embeddings   == {<<1, 0>>, <<0, 1>>}
\* an optional argument is <<>> when it is omitted and <<v>> when it is v
None    == <<>>
Some(v) == <<v>>
OrElse(opt, default) == IF opt = None THEN default ELSE opt[1]

QueryInputs    == {None, Some(<<>>), Some(<<0, 1>>)}
BoostInputs    == {None, Some(5000), Some(-20000)}
BodyBoosts     == {None, Some(0), Some(-20000)}
\* limit and minScore of a retrieval: both omitted, or one of them given
PageInputs     == {<<None, None>>, <<Some(1), None>>, <<None, Some(12000)>>}
LinkTypes      == {"semantic"}
TickHours      == {100, 1000}
\* a text is the list of its words and of the runs of white space between
\* them (WS stands for one run); a source is a string
WS         == " "
SomeText   == <<"note">>
SomeSource == "chat"
TheCatSat  == <<"the", WS, "cat", WS, "sat", WS, "on", WS, "the", WS, "mat">>
ACatSits   == <<"a", WS, "cat", WS, "sits", WS, "on", WS, "a", WS, "mat">>
TheCatSatCapital ==
    <<"The", WS, "cat", WS, "sat", WS, "on", WS, "the", WS, "mat">>
TextInputs == {TheCatSat, ACatSits, TheCatSatCapital}

\* searchMemories: query vectors, bucket lists and limits
SearchQueries == {None, Some(<<>>), Some(<<1, 0>>)}
BucketLists   == {None, Some(<<"semantic_stm", "semantic_ltm">>),
                  Some(<<"semantic_stm", "no_such_bucket">>)}
LimitInputs   == {None, Some(1), Some(3)}

\* createMemoryLink: the arguments of a call (two of them for the same
\* source and target, one from a chunk to itself), and the ids
\* getMemoryLinks is called with
LinkInputs  == {<<1, 2, "semantic", None>>, <<1, 2, "causal", Some(5000)>>,
                <<2, 1, "temporal", None>>, <<2, 2, "associative", Some(0)>>}
LinkQueries == {1, 2, 3}

\* one bucket of each bucket type
RateBuckets == {"semantic_stm", "semantic_ltm", "diary_rl", "api_docs",
                "odds_ends"}

\* generateReflection: requests, and the creates the storage rejects
DeepRequest ==
    [memoryScope |-> <<"episodic_stm">>, reflectionDepth |-> "deep",
     focusAreas |-> <<"cat">>]
ReflectionRequests ==
    {[memoryScope |-> <<>>, reflectionDepth |-> "shallow",
      focusAreas |-> <<>>],
     DeepRequest,
     [memoryScope |-> <<"episodic_stm", "episodic_stm">>,
      reflectionDepth |-> "shallow", focusAreas |-> <<>>],
     [memoryScope |-> <<"episodic_stm", "no_such_bucket">>,
      reflectionDepth |-> "medium", focusAreas |-> <<>>]}
\* linksDown and rejected of a call: no failure, the link table cannot be
\* read, the first create rejects
FailureInputs == {<<FALSE, {}>>, <<TRUE, {}>>, <<FALSE, {1}>>}
Conductor    == "conductor"
\* boostMemory of the calls that interleave: the default amount and 0.5
RaceBoosts   == {None, Some(5000)}
\* the calls: every request with no failure, the deep one with each failure
ReflectionCalls ==
    (ReflectionRequests \X {<<FALSE, {}>>}) \cup ({DeepRequest} \X FailureInputs)

\* generateReflection over a stocked store: a shallow, a medium and a deep
\* request with more insights than the depth returns, and a deep one with
\* fewer
AllThree == <<"episodic_stm", "semantic_stm", "diary_rl">>
PassRequests ==
    {[memoryScope |-> <<"episodic_stm">>, reflectionDepth |-> "shallow",
      focusAreas |-> <<"cat", "dog">>],
     [memoryScope |-> AllThree, reflectionDepth |-> "medium",
      focusAreas |-> <<"cat", "sat", "The", "learn">>],
     [memoryScope |-> AllThree, reflectionDepth |-> "deep",
      focusAreas |-> <<"cat", "sat", "mat", "on", "the", "The", "learn">>],
     [memoryScope |-> <<"episodic_stm">>, reflectionDepth |-> "deep",
      focusAreas |-> <<>>]}
\* the links createMemoryLink is asked for between two passes
PassLinks == {<<1, 9>>, <<9, 1>>}

\* scheduleReflection: the scope, the depth and the focus areas of a call
ScheduleInputs ==
    {<<(<<"episodic_stm">>), None, None>>,
     <<(<<"episodic_stm", "semantic_stm">>), Some("shallow"), Some(<<"cat">>)>>}

\* the two callers whose calls of initializeMemoryBuckets interleave
Callers == {1, 2}

\* calculateCosineSimilarity: vectors of at most MaxDim elements
MaxDim     == 3
Components == -1..2
Vectors    == UNION {[1..n -> Components] : n \in 0..MaxDim}

VARIABLES
    buckets,    \* prisma.memoryBucket: name -> row (the name is the row's id)
    chunks,     \* prisma.memoryChunk: id -> row
    links,      \* prisma.memoryLink: sequence of rows, in creation order
    reflections, \* prisma.memoryReflection: sequence of rows, in creation order
    inits,      \* the running calls of initializeMemoryBuckets: where each is
    agents,     \* prisma.agent: sequence of rows, in creation order
    tasks,      \* prisma.agentTask: sequence of rows, in creation order
    nextId,     \* number of chunk rows created so far
    now,        \* Date.now(), in hours
    steps,      \* number of calls and clock advances so far
    last,       \* the last call: what was called, with what, and its outcome
    running     \* the calls of boostMemory, applyMemoryDecay and
                \* generateReflection that run concurrently: caller -> call

vars == <<buckets, chunks, links, reflections, inits, agents, tasks, nextId, now,
          steps, last, running>>

\* ------------------------------------------------------------ helpers
Range(s) == {s[i] : i \in DOMAIN s}

Min(a, b) == IF a <= b THEN a ELSE b

Abs(x) == IF x < 0 THEN -x ELSE x

\* a chunk row; bucket is the bucketId of the owning bucket
Chunk(bucket, text, embedding, source, score, timestamp, lastAccessed, accessCount, decayRate) ==
    [bucket |-> bucket, text |-> text, embedding |-> embedding,
     source |-> source, score |-> score, timestamp |-> timestamp,
     lastAccessed |-> lastAccessed, accessCount |-> accessCount,
     decayRate |-> decayRate]

NoChunk == Chunk("", <<>>, <<>>, "", 0, 0, 0, 0, 0)

\* the Number 0 (a Number is m * 2^e, see Number arithmetic)
Zero == [m |-> 0, e |-> 0]

\* a number that may be NaN
Num(v) == [nan |-> FALSE, val |-> v]
NaN    == [nan |-> TRUE, val |-> 0]

NoCounts == [processed |-> 0, decayed |-> 0, deleted |-> 0]

\* data of prisma.memoryLink.create
Link(sourceId, targetId, linkType, strength) ==
    [sourceId |-> sourceId, targetId |-> targetId, linkType |-> linkType,
     strength |-> strength]

NoLink == Link(0, 0, "", 0)

\* the record of a call: op names the method, ok is FALSE when it threw,
\* arg is its optional argument as passed, ret the list of ids it returned,
\* row the row it returned (addMemoryChunk) or found (boostMemory), scope
\* the bucket names it was given, rows the objects it returned
\* (searchMemories) or gathered (generateReflection), the next four fields
\* the ReflectionResult of generateReflection, fault the step of
\* generateReflection that threw, value the Number a function returned,
\* focusAreas those of the request of generateReflection,
\* link the row createMemoryLink returned, and outgoing and incoming the
\* rows getMemoryLinks returned (as the sets of their positions in the
\* table: its findMany has no orderBy), and stats what getMemoryStats
\* returned
Call(op, ok) ==
    [op |-> op, ok |-> ok, id |-> 0, bucket |-> "", arg |-> None,
     limit |-> 0, minScore |-> 0, ret |-> <<>>, counts |-> NoCounts,
     row |-> NoChunk, scope |-> <<>>, rows |-> <<>>, insights |-> <<>>,
     newConnections |-> <<>>, recommendations |-> <<>>,
     confidenceScore |-> Num(0), fault |-> "none", value |-> Zero,
     link |-> NoLink, outgoing |-> {}, incoming |-> {}, stats |-> <<>>,
     focusAreas |-> <<>>]

\* the store without row id
Remove(store, id) == [k \in (DOMAIN store) \ {id} |-> store[k]]

\* the store with row id set to row
Put(store, id, row) ==
    [k \in (DOMAIN store) \cup {id} |-> IF k = id THEN row ELSE store[k]]

\* --------------------------------------------------- Number arithmetic
\* A Number is a binary floating-point value m * 2^e whose significand m has
\* Precision bits, and every operation rounds its exact result to the
\* nearest such value, ties to the even significand.  A Number of the
\* program has 53 bits; the model keeps the rounding and shortens m.
Precision == 9

RECURSIVE Pow2(_)
Pow2(k) == IF k <= 0 THEN 1 ELSE 2 * Pow2(k - 1)

\* the number of bits of the whole number n >= 0
RECURSIVE BitLength(_)
BitLength(n) == IF n = 0 THEN 0 ELSE 1 + BitLength(n \div 2)

\* the Number nearest to n * 2^e
RoundToPrecision(n, e) ==
    LET sign  == IF n < 0 THEN -1 ELSE 1
        a     == Abs(n)
        shift == BitLength(a) - Precision
    IN  IF n = 0 THEN Zero
        ELSE IF shift <= 0
        THEN [m |-> n * Pow2(-shift), e |-> e + shift]
        ELSE LET q    == a \div Pow2(shift)
                 r    == a % Pow2(shift)
                 half == Pow2(shift - 1)
                 up   == r > half \/ (r = half /\ q % 2 = 1)
                 q1   == IF up THEN q + 1 ELSE q
             IN  IF q1 = Pow2(Precision)
                 THEN [m |-> sign * Pow2(Precision - 1), e |-> e + shift + 1]
                 ELSE [m |-> sign * q1, e |-> e + shift]

\* a whole number as a Number
FromInt(n) == RoundToPrecision(n, 0)

\* a * b
FMul(a, b) == RoundToPrecision(a.m * b.m, a.e + b.e)

\* a + b
FAdd(a, b) ==
    IF a.m = 0 THEN b
    ELSE IF b.m = 0 THEN a
    ELSE LET lo == Min(a.e, b.e)
         IN  RoundToPrecision(a.m * Pow2(a.e - lo) + b.m * Pow2(b.e - lo), lo)

\* floor(sqrt(n)), by bisection on lo..hi
RECURSIVE ISqrt(_, _, _)
ISqrt(n, lo, hi) ==
    IF lo >= hi THEN lo
    ELSE LET mid == (lo + hi + 1) \div 2
         IN  IF mid * mid <= n THEN ISqrt(n, mid, hi) ELSE ISqrt(n, lo, mid - 1)

\* Math.sqrt(a) of a Number a >= 0: the root of the significand widened to
\* Precision + 2 bits, and one more bit that tells whether it is inexact
Sqrt(a) ==
    IF a.m = 0 THEN Zero
    ELSE LET k      == IF (a.e - (Precision + 3)) % 2 = 0
                       THEN Precision + 3 ELSE Precision + 4
             n      == a.m * Pow2(k)
             s      == ISqrt(n, 0, Pow2(Precision + 2))
             sticky == IF s * s = n THEN 0 ELSE 1
         IN  RoundToPrecision(2 * s + sticky, (a.e - k) \div 2 - 1)

\* a / b of Numbers, b not zero
FDiv(a, b) ==
    IF a.m = 0 THEN Zero
    ELSE LET sign   == IF (a.m < 0) = (b.m < 0) THEN 1 ELSE -1
             n      == Abs(a.m) * Pow2(Precision + 2)
             q      == n \div Abs(b.m)
             sticky == IF n % Abs(b.m) = 0 THEN 0 ELSE 1
         IN  RoundToPrecision(sign * (2 * q + sticky),
                              a.e - b.e - (Precision + 2) - 1)

\* a value as the ratio num / den of whole numbers, den > 0
Ratio(a) ==
    IF a.e >= 0 THEN [num |-> a.m * Pow2(a.e), den |-> 1]
    ELSE [num |-> a.m, den |-> Pow2(-a.e)]

\* a fixed-point value as a ratio
RatioOfFixed(x) == [num |-> x, den |-> SCALE]

\* x - y of two ratios is negative, zero or positive
Less(x, y) == x.num * y.den < y.num * x.den

\* ------------------------------------------------- cosine similarity
\* the sum of vec1[i] * vec2[i] over the first n elements, added in order
RECURSIVE Dot(_, _, _)
Dot(vec1, vec2, n) ==
    IF n = 0 THEN Zero
    ELSE FAdd(Dot(vec1, vec2, n - 1),
              FMul(FromInt(vec1[n]), FromInt(vec2[n])))

calculateCosineSimilarity(vec1, vec2) ==
    IF Len(vec1) # Len(vec2) THEN Zero
    ELSE LET dotProduct == Dot(vec1, vec2, Len(vec1))
             norm1      == Dot(vec1, vec1, Len(vec1))
             norm2      == Dot(vec2, vec2, Len(vec2))
         IN  IF norm1 = Zero \/ norm2 = Zero THEN Zero
             ELSE FDiv(dotProduct, FMul(Sqrt(norm1), Sqrt(norm2)))

\* ------------------------------------------------------ bucket lookup
\* DecayRateOf with no decay for the types that have no rate of their own
DecayRateOf_NoDecay(bucketType) ==
    IF bucketType = "STM" THEN MEMORY_DECAY_RATES.STM
    ELSE IF bucketType = "LTM" THEN MEMORY_DECAY_RATES.LTM
    ELSE IF bucketType = "RL" THEN MEMORY_DECAY_RATES.RL
    ELSE SCALE

\* addMemoryChunk: the decay rate of a bucket type
DecayRateOf(bucketType) ==
    IF bucketType = "STM" THEN MEMORY_DECAY_RATES.STM
    ELSE IF bucketType = "LTM" THEN MEMORY_DECAY_RATES.LTM
    ELSE MEMORY_DECAY_RATES.RL

\* --------------------------------------------- getMemoriesFromBucket
\* findMany where: the rows of the bucket with score >= minScore
Matching(store, bucketName, minScore) ==
    {id \in DOMAIN store :
        store[id].bucket = bucketName /\ store[id].score >= minScore}

\* OrderedBefore with the first key ascending
OrderedBefore_LowestFirst(store, a, b) ==
    \/ store[a].score < store[b].score
    \/ /\ store[a].score = store[b].score
       /\ store[a].lastAccessed >= store[b].lastAccessed

\* OrderedBefore with the second key ascending
OrderedBefore_OldestFirst(store, a, b) ==
    \/ store[a].score > store[b].score
    \/ /\ store[a].score = store[b].score
       /\ store[a].lastAccessed <= store[b].lastAccessed

\* orderBy [{score: desc}, {lastAccessed: desc}]: a comes no later than b
OrderedBefore(store, a, b) ==
    \/ store[a].score > store[b].score
    \/ /\ store[a].score = store[b].score
       /\ store[a].lastAccessed >= store[b].lastAccessed

\* every order findMany may return the rows ids in (rows that tie on both
\* keys come in an order the database chooses): a row that no row must
\* precede, followed by an order of the other rows
RECURSIVE Orderings(_, _)
Orderings(store, ids) ==
    IF ids = {} THEN {<<>>}
    ELSE UNION {{<<a>> \o s : s \in Orderings(store, ids \ {a})} :
                  a \in {x \in ids : \A b \in ids : OrderedBefore(store, x, b)}}

\* take: limit
Take(s, limit) == SubSeq(s, 1, Min(limit, Len(s)))

\* chunk.similarity of a returned row, for the query vector q
Similarity(store, id, q) == calculateCosineSimilarity(q, store[id].embedding)

\* insertion of id x into a list sorted by similarity, descending, after
\* the elements that compare equal to it (Array.prototype.sort is stable)
RECURSIVE InsertBySimilarity(_, _, _, _)
InsertBySimilarity(sorted, x, store, q) ==
    IF sorted = <<>> THEN <<x>>
    ELSE IF ~Less(Ratio(Similarity(store, Head(sorted), q)),
                  Ratio(Similarity(store, x, q)))
         THEN <<Head(sorted)>> \o InsertBySimilarity(Tail(sorted), x, store, q)
         ELSE <<x>> \o sorted

\* chunks.sort((a, b) => (b.similarity || 0) - (a.similarity || 0))
RECURSIVE SortBySimilarity(_, _, _)
SortBySimilarity(s, store, q) ==
    IF s = <<>> THEN <<>>
    ELSE InsertBySimilarity(
             SortBySimilarity(SubSeq(s, 1, Len(s) - 1), store, q),
             s[Len(s)], store, q)

\* the list getMemoriesFromBucket returns for the page the query gave
Ranked(store, page, queryEmbedding) ==
    IF queryEmbedding # None /\ Len(queryEmbedding[1]) > 0
    THEN SortBySimilarity(page, store, queryEmbedding[1])
    ELSE page

\* Touch with the update applied to every row of the table
Touch_All(store, ids, time) ==
    [id \in DOMAIN store |->
        [store[id] EXCEPT !.lastAccessed = time, !.accessCount = @ + 1]]

\* the update of every returned row: lastAccessed and accessCount
Touch(store, ids, time) ==
    [id \in DOMAIN store |->
        IF id \in ids
        THEN [store[id] EXCEPT !.lastAccessed = time,
                               !.accessCount = @ + 1]
        ELSE store[id]]

\* -------------------------------------------------- applyMemoryDecay
\* hoursSinceAccess of a row at time
HoursSinceAccess(chunk, time) == time - chunk.lastAccessed

\* NewScore with the decayed part added instead of taken away
NewScore_Grow(chunk, time) ==
    chunk.score + (chunk.score -
        Mul(chunk.score, Pow(chunk.decayRate, HoursSinceAccess(chunk, time))))

\* newScore = chunk.score * Math.pow(chunk.decayRate, hoursSinceAccess)
NewScore(chunk, time) ==
    Mul(chunk.score, Pow(chunk.decayRate, HoursSinceAccess(chunk, time)))

\* DecayOne with the stored score, not the new one, tested for deletion
DecayOne_OldScore(acc, chunk, id, time) ==
    LET newScore == NewScore(chunk, time)
    IN  IF chunk.score < DeleteThreshold
        THEN [store  |-> Remove(acc.store, id),
              counts |-> [acc.counts EXCEPT !.deleted = @ + 1,
                                            !.processed = @ + 1]]
        ELSE IF newScore # chunk.score
        THEN [store  |-> [acc.store EXCEPT ![id].score = newScore],
              counts |-> [acc.counts EXCEPT !.decayed = @ + 1,
                                            !.processed = @ + 1]]
        ELSE [store  |-> acc.store,
              counts |-> [acc.counts EXCEPT !.processed = @ + 1]]

\* DecayOne with the update counted as an access of the row
DecayOne_Access(acc, chunk, id, time) ==
    LET newScore == NewScore(chunk, time)
    IN  IF newScore < DeleteThreshold
        THEN [store  |-> Remove(acc.store, id),
              counts |-> [acc.counts EXCEPT !.deleted = @ + 1,
                                            !.processed = @ + 1]]
        ELSE IF newScore # chunk.score
        THEN [store  |-> [acc.store EXCEPT ![id].score = newScore,
                                           ![id].lastAccessed = time,
                                           ![id].accessCount = @ + 1],
              counts |-> [acc.counts EXCEPT !.decayed = @ + 1,
                                            !.processed = @ + 1]]
        ELSE [store  |-> acc.store,
              counts |-> [acc.counts EXCEPT !.processed = @ + 1]]

\* DecayOne with every retained row counted as decayed
DecayOne_CountAll(acc, chunk, id, time) ==
    LET newScore == NewScore(chunk, time)
    IN  IF newScore < DeleteThreshold
        THEN [store  |-> Remove(acc.store, id),
              counts |-> [acc.counts EXCEPT !.deleted = @ + 1,
                                            !.processed = @ + 1]]
        ELSE [store  |-> [acc.store EXCEPT ![id].score = newScore],
              counts |-> [acc.counts EXCEPT !.decayed = @ + 1,
                                            !.processed = @ + 1]]

\* DecayOne that stores the new score of a row under the threshold instead
\* of deleting the row
DecayOne_NeverDelete(acc, chunk, id, time) ==
    LET newScore == NewScore(chunk, time)
    IN  IF newScore # chunk.score
        THEN [store  |-> [acc.store EXCEPT ![id].score = newScore],
              counts |-> [acc.counts EXCEPT !.decayed = @ + 1,
                                            !.processed = @ + 1]]
        ELSE [store  |-> acc.store,
              counts |-> [acc.counts EXCEPT !.processed = @ + 1]]

\* the body of the loop for one row of the snapshot
DecayOne(acc, chunk, id, time) ==
    LET newScore == NewScore(chunk, time)
    IN  IF newScore < DeleteThreshold
        THEN [store  |-> Remove(acc.store, id),
              counts |-> [acc.counts EXCEPT !.deleted = @ + 1,
                                            !.processed = @ + 1]]
        ELSE IF newScore # chunk.score
        THEN [store  |-> [acc.store EXCEPT ![id].score = newScore],
              counts |-> [acc.counts EXCEPT !.decayed = @ + 1,
                                            !.processed = @ + 1]]
        ELSE [store  |-> acc.store,
              counts |-> [acc.counts EXCEPT !.processed = @ + 1]]

\* for (const chunk of chunks), over the rows findMany() returned
RECURSIVE DecayLoop(_, _, _, _)
DecayLoop(acc, snapshot, todo, time) ==
    IF todo = {} THEN acc
    ELSE LET id == CHOOSE k \in todo : \A m \in todo : k <= m
         IN  DecayLoop(DecayOne(acc, snapshot[id], id, time),
                       snapshot, todo \ {id}, time)

\* ------------------------------------------------------------ state
Init ==
    /\ buckets = <<>>
    /\ chunks = <<>>
    /\ links = <<>>
    /\ reflections = <<>>
    /\ inits = <<>>
    /\ running = <<>>
    /\ agents = <<>>
    /\ tasks = <<>>
    /\ nextId = 0
    /\ now = 0
    /\ steps = 0
    /\ last = Call("none", TRUE)

\* ---------------------------------------------------------- actions
\* time passes
Tick(hours) ==
    /\ now' = now + hours
    /\ last' = Call("tick", TRUE)
    /\ UNCHANGED <<running, buckets, chunks, links, nextId, reflections, inits, agents, tasks>>

\* InitLoop that leaves the loop before the last config
RECURSIVE InitLoop_SkipLast(_, _)
InitLoop_SkipLast(rows, i) ==
    IF i >= Len(bucketConfigs) THEN rows
    ELSE LET config == bucketConfigs[i]
         IN  IF config.name \in DOMAIN rows
             THEN InitLoop_SkipLast(rows, i + 1)
             ELSE InitLoop_SkipLast(Put(rows, config.name,
                               [bucketType |-> config.bucketType]), i + 1)

\* for (const config of bucketConfigs): create the bucket if none has its name
RECURSIVE InitLoop(_, _)
InitLoop(rows, i) ==
    IF i > Len(bucketConfigs) THEN rows
    ELSE LET config == bucketConfigs[i]
         IN  IF config.name \in DOMAIN rows
             THEN InitLoop(rows, i + 1)
             ELSE InitLoop(Put(rows, config.name,
                               [bucketType |-> config.bucketType]), i + 1)

\* a run with no other call in between
InitializeMemoryBuckets ==
    /\ buckets' = InitLoop(buckets, 1)
    /\ last' = Call("initializeMemoryBuckets", TRUE)
    /\ UNCHANGED <<running, chunks, links, nextId, now, reflections, inits, agents, tasks>>

\* FindBucket falling back to the odds_ends bucket for an unknown name
FindBucket_Default(rows, bucketName) ==
    IF bucketName \in DOMAIN rows THEN Some(bucketName)
    ELSE IF "odds_ends" \in DOMAIN rows THEN Some("odds_ends") ELSE None

\* FindBucket as a findFirst with no where: any row will do
FindBucket_First(rows, bucketName) ==
    IF DOMAIN rows = {} THEN None
    ELSE IF bucketName \in DOMAIN rows THEN Some(bucketName)
    ELSE Some(CHOOSE name \in DOMAIN rows : TRUE)

\* prisma.memoryBucket.findUnique({ where: { name } }): the id of the row
\* found, None when there is none
FindBucket(rows, bucketName) ==
    IF bucketName \in DOMAIN rows THEN Some(bucketName) ELSE None

\* the default of the lastAccessed column of a row created at time
DefaultLastAccessed(time) == time

\* the default of the timestamp column of a row created at time
DefaultTimestamp(time) == time

\* data of prisma.memoryChunk.create, and the columns it leaves to default
NewChunk(bucketId, text, embedding, source, decayRate, time) ==
    Chunk(bucketId, text, embedding, source, DefaultScore,
          DefaultTimestamp(time), DefaultLastAccessed(time),
          DefaultAccessCount, decayRate)

\* AddMemoryChunk as an upsert that keeps one row for each bucket
AddMemoryChunk_Upsert(bucketName, text, embedding, source) ==
    LET bucket == FindBucket(buckets, bucketName)
    IN  IF bucket = None
        THEN /\ last' = [Call("addMemoryChunk", FALSE) EXCEPT
                            !.bucket = bucketName]
             /\ UNCHANGED <<running, buckets, chunks, links, nextId, now, reflections, inits, agents, tasks>>
        ELSE /\ nextId < MaxChunks
             /\ LET old   == {k \in DOMAIN chunks : chunks[k].bucket = bucket[1]}
                    id    == IF old = {} THEN nextId + 1
                             ELSE CHOOSE k \in old : TRUE
                    chunk == NewChunk(bucket[1], text, embedding, source,
                                 DecayRateOf(buckets[bucket[1]].bucketType), now)
                IN  /\ chunks' = Put(chunks, id, chunk)
                    /\ nextId' = nextId + 1
                    /\ last' = [Call("addMemoryChunk", TRUE) EXCEPT
                                   !.bucket = bucketName, !.id = id,
                                   !.row = chunk]
             /\ UNCHANGED <<running, buckets, links, now, reflections, inits, agents, tasks>>

AddMemoryChunk(bucketName, text, embedding, source) ==
    LET bucket == FindBucket(buckets, bucketName)
    IN  IF bucket = None
        THEN /\ last' = [Call("addMemoryChunk", FALSE) EXCEPT
                            !.bucket = bucketName]
             /\ UNCHANGED <<running, buckets, chunks, links, nextId, now, reflections, inits, agents, tasks>>
        ELSE /\ nextId < MaxChunks
             /\ LET id    == nextId + 1
                    chunk == NewChunk(bucket[1], text, embedding, source,
                                 DecayRateOf(buckets[bucket[1]].bucketType), now)
                IN  /\ chunks' = Put(chunks, id, chunk)
                    /\ nextId' = id
                    /\ last' = [Call("addMemoryChunk", TRUE) EXCEPT
                                   !.bucket = bucketName, !.id = id,
                                   !.row = chunk]
             /\ UNCHANGED <<running, buckets, links, now, reflections, inits, agents, tasks>>

GetMemoriesFromBucket(bucketName, queryEmbedding, limitArg, minScoreArg) ==
    LET bucket   == FindBucket(buckets, bucketName)
        limit    == OrElse(limitArg, DefaultLimit)
        minScore == OrElse(minScoreArg, DefaultMinScore)
    IN  IF bucket = None
        THEN /\ last' = [Call("getMemoriesFromBucket", FALSE) EXCEPT
                            !.bucket = bucketName, !.arg = queryEmbedding,
                            !.limit = limit, !.minScore = minScore]
             /\ UNCHANGED <<running, buckets, chunks, links, nextId, now, reflections, inits, agents, tasks>>
        ELSE \E found \in Orderings(chunks, Matching(chunks, bucket[1], minScore)) :
               LET result == Ranked(chunks, Take(found, limit), queryEmbedding)
               IN  /\ chunks' = Touch(chunks, Range(result), now)
                   /\ last' = [Call("getMemoriesFromBucket", TRUE) EXCEPT
                                  !.bucket = bucketName, !.arg = queryEmbedding,
                                  !.limit = limit, !.minScore = minScore,
                                  !.ret = result]
                   /\ UNCHANGED <<running, buckets, links, nextId, now, reflections, inits, agents, tasks>>

\* a run with no other call in between
ApplyMemoryDecay ==
    LET run == DecayLoop([store |-> chunks, counts |-> NoCounts],
                         chunks, DOMAIN chunks, now)
    IN  /\ chunks' = run.store
        /\ last' = [Call("applyMemoryDecay", TRUE) EXCEPT !.counts = run.counts]
        /\ UNCHANGED <<running, buckets, links, nextId, now, reflections, inits, agents, tasks>>

\* Boosted with the score set to the amount instead of incremented by it
Boosted_Set(chunk, boost, time) ==
    [chunk EXCEPT !.score = boost,
                  !.lastAccessed = time,
                  !.accessCount = @ + 1]

\* data of the update in boostMemory, applied to the row
Boosted(chunk, boost, time) ==
    [chunk EXCEPT !.score = @ + boost,
                  !.lastAccessed = time,
                  !.accessCount = @ + 1]

\* BoostMemory that deletes the row when the boost leaves it a score under
\* the threshold of applyMemoryDecay
BoostMemory_Evict(chunkId, boostArg) ==
    IF chunkId \notin DOMAIN chunks
    THEN /\ last' = [Call("boostMemory", FALSE) EXCEPT
                        !.id = chunkId, !.arg = boostArg]
         /\ UNCHANGED <<running, buckets, chunks, links, nextId, now, reflections, inits, agents, tasks>>
    ELSE /\ chunks' =
                LET row == Boosted(chunks[chunkId],
                                   OrElse(boostArg, DefaultBoost), now)
                IN  IF row.score < DeleteThreshold
                    THEN Remove(chunks, chunkId)
                    ELSE [chunks EXCEPT ![chunkId] = row]
         /\ last' = [Call("boostMemory", TRUE) EXCEPT
                        !.id = chunkId, !.arg = boostArg, !.row = chunks[chunkId]]
         /\ UNCHANGED <<running, buckets, links, nextId, now, reflections, inits, agents, tasks>>

\* boostArg is None when the caller leaves the amount out
BoostMemory(chunkId, boostArg) ==
    IF chunkId \notin DOMAIN chunks
    THEN /\ last' = [Call("boostMemory", FALSE) EXCEPT
                        !.id = chunkId, !.arg = boostArg]
         /\ UNCHANGED <<running, buckets, chunks, links, nextId, now, reflections, inits, agents, tasks>>
    ELSE /\ chunks' = [chunks EXCEPT ![chunkId] =
                          Boosted(@, OrElse(boostArg, DefaultBoost), now)]
         /\ last' = [Call("boostMemory", TRUE) EXCEPT
                        !.id = chunkId, !.arg = boostArg, !.row = chunks[chunkId]]
         /\ UNCHANGED <<running, buckets, links, nextId, now, reflections, inits, agents, tasks>>

\* CreateMemoryLink that keeps one link between two chunks
CreateMemoryLink_Dedup(sourceId, targetId, linkType, strengthArg) ==
    LET link == Link(sourceId, targetId, linkType,
                     OrElse(strengthArg, DefaultStrength))
        old  == {k \in DOMAIN links : /\ links[k].sourceId = sourceId
                                      /\ links[k].targetId = targetId}
    IN  /\ links' = IF old = {} THEN Append(links, link) ELSE links
        /\ last' = [Call("createMemoryLink", TRUE) EXCEPT
                       !.id = sourceId, !.arg = strengthArg, !.link = link]
        /\ UNCHANGED <<running, buckets, chunks, nextId, now, reflections, inits, agents, tasks>>

\* strengthArg is None when the caller leaves the strength out
CreateMemoryLink(sourceId, targetId, linkType, strengthArg) ==
    LET link == Link(sourceId, targetId, linkType,
                     OrElse(strengthArg, DefaultStrength))
    IN  /\ links' = Append(links, link)
        /\ last' = [Call("createMemoryLink", TRUE) EXCEPT
                       !.id = sourceId, !.arg = strengthArg, !.link = link]
        /\ UNCHANGED <<running, buckets, chunks, nextId, now, reflections, inits, agents, tasks>>

\* LinksTo with the links that leave the chunk counted as well
LinksTo_Either(table, chunkId) ==
    {k \in DOMAIN table :
        table[k].targetId = chunkId \/ table[k].sourceId = chunkId}

\* findMany where: { sourceId: chunkId } and where: { targetId: chunkId }
LinksFrom(table, chunkId) == {k \in DOMAIN table : table[k].sourceId = chunkId}
LinksTo(table, chunkId) == {k \in DOMAIN table : table[k].targetId = chunkId}

GetMemoryLinks(chunkId) ==
    /\ last' = [Call("getMemoryLinks", TRUE) EXCEPT
                   !.id = chunkId,
                   !.outgoing = LinksFrom(links, chunkId),
                   !.incoming = LinksTo(links, chunkId)]
    /\ UNCHANGED <<running, buckets, chunks, links, nextId, now, reflections, inits, agents, tasks>>

\* data.boost || 0.1: the amount PUT passes on for the body's boost field
BoostOfBody(bodyBoost) ==
    IF bodyBoost = None \/ bodyBoost[1] = 0 THEN Some(DefaultBoost) ELSE bodyBoost

\* PUT /api/memory with action 'boost'; ok is FALSE for the 500 response
PUT(memoryId, bodyBoost) ==
    LET boost == BoostOfBody(bodyBoost)
    IN  IF memoryId \notin DOMAIN chunks
        THEN /\ last' = [Call("PUT", FALSE) EXCEPT
                            !.id = memoryId, !.arg = bodyBoost]
             /\ UNCHANGED <<running, buckets, chunks, links, nextId, now, reflections, inits, agents, tasks>>
        ELSE /\ chunks' = [chunks EXCEPT ![memoryId] =
                              Boosted(@, OrElse(boost, DefaultBoost), now)]
             /\ last' = [Call("PUT", TRUE) EXCEPT
                            !.id = memoryId, !.arg = bodyBoost,
                            !.row = chunks[memoryId]]
             /\ UNCHANGED <<running, buckets, links, nextId, now, reflections, inits, agents, tasks>>

\* ----------------------------------------------------- searchMemories
\* a row as a call returned it: the row as findMany read it, and the
\* similarity the call attached to it, None when it attached none
Objects(store, ids, queryEmbedding) ==
    [i \in DOMAIN ids |->
        [id |-> ids[i], row |-> store[ids[i]],
         similarity |-> IF queryEmbedding # None /\ Len(queryEmbedding[1]) > 0
                        THEN Some(Similarity(store, ids[i], queryEmbedding[1]))
                        ELSE None]]

\* every outcome of getMemoriesFromBucket called from another method on
\* the tables rows and store: whether it returned, the chunk table it
\* left, and the objects it returned
Retrievals(rows, store, bucketName, queryEmbedding, limit, minScore, time) ==
    LET bucket == FindBucket(rows, bucketName)
    IN  IF bucket = None
        THEN {[ok |-> FALSE, store |-> store, ret |-> <<>>]}
        ELSE {LET result == Ranked(store, Take(found, limit), queryEmbedding)
              IN  [ok |-> TRUE, store |-> Touch(store, Range(result), time),
                   ret |-> Objects(store, result, queryEmbedding)] :
                found \in Orderings(store, Matching(store, bucket[1], minScore))}

\* for (const bucketName of names): the calls follow one another, each on
\* the table the one before left; the first call that throws ends the loop
RECURSIVE RetrievalLoop(_, _, _, _, _, _, _)
RetrievalLoop(rows, store, names, queryEmbedding, limit, time, allResults) ==
    IF names = <<>>
    THEN {[ok |-> TRUE, store |-> store, ret |-> allResults]}
    ELSE UNION {IF r.ok
                THEN RetrievalLoop(rows, r.store, Tail(names), queryEmbedding,
                                   limit, time, allResults \o r.ret)
                ELSE {[ok |-> FALSE, store |-> r.store, ret |-> <<>>]} :
                  r \in Retrievals(rows, store, Head(names), queryEmbedding,
                                   limit, DefaultMinScore, time)}

\* insertion of index x into a list of indexes sorted by key, descending,
\* after the indexes whose keys compare equal to its key
RECURSIVE InsertDescending(_, _, _)
InsertDescending(sorted, x, key) ==
    IF sorted = <<>> THEN <<x>>
    ELSE IF ~Less(key[Head(sorted)], key[x])
         THEN <<Head(sorted)>> \o InsertDescending(Tail(sorted), x, key)
         ELSE <<x>> \o sorted

RECURSIVE SortedIndexes(_, _)
SortedIndexes(n, key) ==
    IF n = 0 THEN <<>>
    ELSE InsertDescending(SortedIndexes(n - 1, key), n, key)

\* s.sort((a, b) => key(b) - key(a)), key[i] being the key of s[i]
SortDescending(s, key) ==
    LET order == SortedIndexes(Len(s), key)
    IN  [i \in DOMAIN s |-> s[order[i]]]

\* a.similarity || a.score: the score when there is no similarity, and
\* when the similarity is 0
SearchKey(object) ==
    IF object.similarity # None /\ object.similarity[1] # Zero
    THEN Ratio(object.similarity[1])
    ELSE RatioOfFixed(object.row.score)

\* Math.ceil(limit / length), length > 0
CeilDiv(limit, length) == (limit + length - 1) \div length

\* bucketsArg and limitArg are None when the caller leaves them out;
\* queryEmbedding is None for a caller that passes undefined
SearchMemories(queryEmbedding, bucketsArg, limitArg) ==
    LET bucketsToSearch == OrElse(bucketsArg, MEMORY_BUCKET_NAMES)
        limit == OrElse(limitArg, DefaultSearchLimit)
        page  == IF bucketsToSearch = <<>> THEN 0
                 ELSE CeilDiv(limit, Len(bucketsToSearch))
    IN  \E run \in RetrievalLoop(buckets, chunks, bucketsToSearch,
                                 queryEmbedding, page, now, <<>>) :
          LET sorted == SortDescending(run.ret,
                            [i \in DOMAIN run.ret |-> SearchKey(run.ret[i])])
              result == Take(sorted, limit)
          IN  /\ chunks' = run.store
              /\ last' = [Call("searchMemories", run.ok) EXCEPT
                             !.arg = queryEmbedding, !.scope = bucketsToSearch,
                             !.limit = limit,
                             !.rows = IF run.ok THEN result ELSE <<>>,
                             !.ret = IF run.ok
                                     THEN [i \in DOMAIN result |-> result[i].id]
                                     ELSE <<>>]
              /\ UNCHANGED <<running, buckets, links, nextId, now, reflections, inits, agents, tasks>>

\* --------------------------------------------------------------- texts
\* toLowerCase of a word
LowerCase(word) ==
    IF word = "The" THEN "the"
    ELSE IF word = "Learning" THEN "learning"
    ELSE word

\* text.toLowerCase()
ToLowerCase(text) == [i \in DOMAIN text |-> LowerCase(text[i])]

\* the tokens from element i on, token being the one that is being read
RECURSIVE SplitFrom(_, _, _)
SplitFrom(text, i, token) ==
    IF i > Len(text) THEN <<token>>
    ELSE IF text[i] = WS THEN <<token>> \o SplitFrom(text, i + 1, "")
    ELSE SplitFrom(text, i + 1, text[i])

\* text.split(/\s+/): the words between the runs of white space, with an
\* empty token before a leading run and after a trailing one
Split(text) == SplitFrom(text, 1, "")

\* word.includes(part) and text.includes(part), for a part without white
\* space
WordIncludes(word, part) ==
    \/ word = part
    \/ part = ""
    \/ word = "learning" /\ part = "learn"
    \/ word = "learning_module" /\ part \in {"learn", "learning"}

Includes(text, part) == \E i \in DOMAIN text : WordIncludes(text[i], part)

\* HighSimilarity with the threshold at 0.4
HighSimilarity_Low(similarity) == Less(RatioOfFixed(4000), similarity)

\* similarity > 0.7
HighSimilarity(similarity) == Less(RatioOfFixed(7000), similarity)

\* intersection.size / union.size of the sets of lower-cased tokens
calculateTextSimilarity(text1, text2) ==
    LET words1 == Range(Split(ToLowerCase(text1)))
        words2 == Range(Split(ToLowerCase(text2)))
    IN  [num |-> Cardinality(words1 \cap words2),
         den |-> Cardinality(words1 \cup words2)]

\* ------------------------------------------------- generateReflection
\* GatheredBefore with the score as the first key
GatheredBefore_ScoreFirst(a, b) ==
    \/ a.row.score > b.row.score
    \/ /\ a.row.score = b.row.score
       /\ a.row.lastAccessed > b.row.lastAccessed

\* the comparator of gatherMemoriesForReflection is negative for (a, b):
\* 0.7 * (b.score - a.score) + 0.3 * (b.lastAccessed - a.lastAccessed) < 0,
\* the times in milliseconds, so that 0.3 of one hour outweighs 0.7 of any
\* difference of scores
GatheredBefore(a, b) ==
    \/ a.row.lastAccessed > b.row.lastAccessed
    \/ /\ a.row.lastAccessed = b.row.lastAccessed
       /\ a.row.score > b.row.score

\* the position the stable sort gives element i of s: after the elements
\* that come before it, and after those it does not come before either
\* and that stand before it in s
SortedPosition(s, i) ==
    1 + Cardinality({j \in DOMAIN s :
                       \/ GatheredBefore(s[j], s[i])
                       \/ ~GatheredBefore(s[i], s[j]) /\ j < i})

\* allMemories.sort with that comparator (the positions as a tuple, which
\* is evaluated once)
SortGathered(s) ==
    LET position == [i \in DOMAIN s |-> SortedPosition(s, i)] \o <<>>
    IN  [p \in DOMAIN s |-> s[CHOOSE i \in DOMAIN s : position[i] = p]]

GatherLimit == 50       \* getMemoriesFromBucket(bucket, undefined, 50)
GatherTotal == 100      \* slice(0, 100)

\* every outcome of gatherMemoriesForReflection
gatherMemoriesForReflection(rows, store, scope, time) ==
    {[ok |-> run.ok, store |-> run.store,
      ret |-> Take(SortGathered(run.ret), GatherTotal)] :
        run \in RetrievalLoop(rows, store, scope, None, GatherLimit, time, <<>>)}

\* the number of the memories whose index is in the set
Count(indexes) == Cardinality(indexes)

\* an insight: the sentence it is (kind) and the number the sentence holds
Insight(kind, n) == [kind |-> kind, n |-> n]

\* the insight when the number is positive, no insight otherwise
InsightIf(kind, n) == IF n > 0 THEN <<Insight(kind, n)>> ELSE <<>>

identifyPatterns(memories) ==
    LET sources == {memories[i].row.source : i \in DOMAIN memories}
    IN  InsightIf("sources", Min(3, Cardinality(sources)))
        \o InsightIf("reinforced",
                     Count({k \in DOMAIN memories :
                             memories[k].row.score > 2 * SCALE}))

Day  == 24
Week == 7 * Day

analyzeTemporalPatterns(memories, time) ==
    LET recent == Count({k \in DOMAIN memories :
            time - memories[k].row.timestamp < Day})
        week   == Count({k \in DOMAIN memories :
                time - memories[k].row.timestamp < Week})
    IN  InsightIf("recent", recent) \o InsightIf("week", week - recent)

analyzeTopicClusters(memories, focusAreas) ==
    LET keywords ==
            UNION {{w \in Range(Split(ToLowerCase(memories[i].row.text))) :
                       Len(w) > 3} : i \in DOMAIN memories}
        related(area) ==
            Count({k \in DOMAIN memories :
                    Includes(ToLowerCase(memories[k].row.text), LowerCase(area))})
    IN  InsightIf("topics", Min(5, Cardinality(keywords)))
        \o SelectSeq([a \in DOMAIN focusAreas |->
                         Insight("focus", related(focusAreas[a]))],
                     LAMBDA insight : insight.n > 0)

performDeepAnalysis(memories) ==
    LET accessed == {memories[i].row.accessCount : i \in DOMAIN memories}
        most     == CHOOSE n \in accessed \cup {0} :
                        \A k \in accessed : k <= n
    IN  InsightIf("mostAccessed", IF most > 1 THEN most ELSE 0)
        \o InsightIf("resistant",
               Count({k \in DOMAIN memories :
                       /\ memories[k].row.score > 15 * (SCALE \div 10)
                       /\ memories[k].row.accessCount > 2}))

\* metadata.category is not part of a row here: no chunk is stored with
\* the category skill_development
performMetacognitiveAnalysis(memories) ==
    LET learning == Count({k \in DOMAIN memories :
            WordIncludes(memories[k].row.source, "learning")})
    IN  (IF learning > 0
         THEN <<Insight("learning",
                        (200 * learning + Len(memories)) \div (2 * Len(memories)))>>
         ELSE <<>>)
        \o InsightIf("consolidated",
               Count({k \in DOMAIN memories :
                       /\ memories[k].row.score > 2 * SCALE
                       /\ memories[k].row.accessCount > 3}))

\* InsightLimit with the limit of the medium depth at every depth
InsightLimit_Medium(depth) == 10

InsightLimit(depth) ==
    IF depth = "shallow" THEN 5 ELSE IF depth = "medium" THEN 10 ELSE 15

analyzeMemories(memories, depth, focusAreas, time) ==
    Take(identifyPatterns(memories)
         \o analyzeTemporalPatterns(memories, time)
         \o analyzeTopicClusters(memories, focusAreas)
         \o (IF depth \in {"medium", "deep"}
             THEN performDeepAnalysis(memories) ELSE <<>>)
         \o (IF depth = "deep"
             THEN performMetacognitiveAnalysis(memories) ELSE <<>>),
         InsightLimit(depth))

\* ExistingLink that finds the links from a to b only
ExistingLink_Forward(table, a, b) ==
    \E k \in DOMAIN table :
        table[k].sourceId = a /\ table[k].targetId = b

\* prisma.memoryLink.findFirst: a link between the two chunks, in either
\* direction
ExistingLink(table, a, b) ==
    \E k \in DOMAIN table :
        \/ table[k].sourceId = a /\ table[k].targetId = b
        \/ table[k].sourceId = b /\ table[k].targetId = a

\* the index pairs the two loops visit, in the order they visit them
\* (indexes from 1: i < j < i + 10 and j <= n)
ComparedPairs(n) ==
    SelectSeq([k \in 1..(9 * n) |->
                  <<(k - 1) \div 9 + 1, (k - 1) \div 9 + 2 + ((k - 1) % 9)>>],
              LAMBDA p : p[2] <= n)

ConnectionLimit == 10   \* newConnections.slice(0, 10)

\* discoverMemoryConnections on the link table: ok is FALSE when findFirst
\* threw (linksDown: the link table cannot be read), ret the candidates
discoverMemoryConnections(memories, table, linksDown, time) ==
    LET pairs     == ComparedPairs(Len(memories))
        sim(p)    == calculateTextSimilarity(memories[p[1]].row.text,
                                             memories[p[2]].row.text)
        looked    == SelectSeq(pairs, LAMBDA p : HighSimilarity(sim(p)))
        proposed  == SelectSeq(looked,
                         LAMBDA p : ~ExistingLink(table, memories[p[1]].id,
                                                  memories[p[2]].id))
    IN  IF linksDown /\ looked # <<>>
        THEN [ok |-> FALSE, ret |-> <<>>]
        ELSE [ok |-> TRUE,
              ret |-> Take([k \in DOMAIN proposed |->
                               [id       |-> <<time, proposed[k][1] - 1,
                                               proposed[k][2] - 1>>,
                                sourceId |-> memories[proposed[k][1]].id,
                                targetId |-> memories[proposed[k][2]].id,
                                strength |-> sim(proposed[k]),
                                linkType |-> "semantic"]],
                           ConnectionLimit)]

generateRecommendations(insights, memories) ==
    LET lowScore == Count({k \in DOMAIN memories :
            memories[k].row.score < SCALE \div 2})
        learning == Count({k \in DOMAIN memories :
                \/ Includes(memories[k].row.text, "learn")
                \/ Includes(memories[k].row.text, "study")
                \/ Includes(memories[k].row.text, "practice")})
        uniqueSources == {memories[i].row.source : i \in DOMAIN memories}
    IN  Take((IF lowScore > 10 THEN <<"reinforce decaying memories">> ELSE <<>>)
             \o (IF learning > 0 THEN <<"continue learning">> ELSE <<>>)
             \o (IF Cardinality(uniqueSources) < 3
                 THEN <<"diversify sources">> ELSE <<>>),
             5)

SaveLimit == 20         \* memories.slice(0, 20)

\* list.join(separator): the elements with the separator between them
join(list, separator) ==
    [k \in 1..(2 * Len(list) - 1) |->
        IF k % 2 = 1 THEN list[(k + 1) \div 2] ELSE separator]

\* saveReflections without the slice: a row for every memory
saveReflections_All(memories, insights, conductorId, rejected, time) ==
    LET kept == SelectSeq([i \in DOMAIN memories |-> i],
                          LAMBDA i : i \notin rejected)
    IN  [k \in DOMAIN kept |->
            [chunkId |-> memories[kept[k]].id,
             reflection |-> join(insights, "; "), insights |-> insights,
             conductorId |-> conductorId, createdAt |-> time]]

\* saveReflections: the rows of the creates that did not reject (rejected
\* holds the indexes of those that did), in the order of the memories
saveReflections(memories, insights, conductorId, rejected, time) ==
    LET top  == Take(memories, SaveLimit)
        kept == SelectSeq([i \in DOMAIN top |-> i], LAMBDA i : i \notin rejected)
    IN  [k \in DOMAIN kept |->
            [chunkId |-> top[kept[k]].id,
             reflection |-> join(insights, "; "), insights |-> insights,
             conductorId |-> conductorId, createdAt |-> time]]

\* Math.min(a, b) of numbers that may be NaN
MinNum(a, b) == IF a.nan \/ b.nan THEN NaN ELSE Num(Min(a.val, b.val))

\* a + b and a * b of numbers that may be NaN, b a fixed-point factor
AddNum(a, b) == IF a.nan \/ b.nan THEN NaN ELSE Num(a.val + b.val)
MulNum(a, b) == IF a.nan THEN NaN ELSE Num(Mul(a.val, b))

\* sum / count, to the nearest fixed-point value; 0 / 0 is NaN
DivNum(sum, count) ==
    IF count = 0 THEN NaN ELSE Num((2 * sum + count) \div (2 * count))

RECURSIVE SumOfScores(_, _)
SumOfScores(memories, n) ==
    IF n = 0 THEN 0 ELSE SumOfScores(memories, n - 1) + memories[n].row.score

calculateConfidenceScore(memories, insights) ==
    LET count   == MulNum(MinNum(DivNum(Len(memories) * SCALE, 50), Num(SCALE)),
                          3 * (SCALE \div 10))
        insight == MulNum(MinNum(DivNum(Len(insights) * SCALE, 10), Num(SCALE)),
                          3 * (SCALE \div 10))
        avgMemoryScore == DivNum(SumOfScores(memories, Len(memories)),
                                 Len(memories))
        quality == MulNum(MinNum(IF avgMemoryScore.nan THEN NaN
                                 ELSE DivNum(avgMemoryScore.val, 2),
                                 Num(SCALE)),
                          4 * (SCALE \div 10))
    IN  MinNum(AddNum(AddNum(count, insight), quality), Num(SCALE))

\* DegradedResult with empty lists in place of the placeholders
DegradedResult_Empty ==
    [insights |-> <<>>, newConnections |-> <<>>, recommendations |-> <<>>,
     confidenceScore |-> Num(0)]

\* the result of the catch block
DegradedResult ==
    [insights |-> <<Insight("Error generating reflection insights", 0)>>,
     newConnections |-> <<>>,
     recommendations |-> <<"Unable to generate recommendations at this time">>,
     confidenceScore |-> Num(0)]

\* request is a ReflectionRequest; linksDown and rejected are the failures
\* of the storage during the call: the link table cannot be read, and the
\* creates of these reflection rows reject.  fault is the step that threw
GenerateReflection(request, conductorId, linksDown, rejected) ==
    \E gathered \in gatherMemoriesForReflection(buckets, chunks,
                                                request.memoryScope, now) :
    \E insights \in {analyzeMemories(gathered.ret, request.reflectionDepth,
                                     request.focusAreas, now)},
       found \in {discoverMemoryConnections(gathered.ret, links, linksDown,
                                            now)} :
      LET memories == gathered.ret
          recommendations == generateRecommendations(insights, memories)
          creates  == 1..Min(SaveLimit, Len(memories))
          saved    == saveReflections(memories, insights, conductorId,
                                      rejected, now)
          fault    == IF ~gathered.ok THEN "gather"
                      ELSE IF ~found.ok THEN "discover"
                      ELSE IF rejected \cap creates # {} THEN "persist"
                      ELSE "none"
          result   == IF fault # "none" THEN DegradedResult
                      ELSE [insights |-> insights,
                            newConnections |-> found.ret,
                            recommendations |-> recommendations,
                            confidenceScore |->
                                calculateConfidenceScore(memories, insights)]
      IN  /\ rejected \subseteq creates
          /\ chunks' = gathered.store
          /\ reflections' = IF fault \in {"gather", "discover"}
                            THEN reflections ELSE reflections \o saved
          /\ last' = [Call("generateReflection", TRUE) EXCEPT
                         !.scope = request.memoryScope,
                         !.arg = Some(request.reflectionDepth),
                         !.focusAreas = request.focusAreas,
                         !.fault = fault,
                         !.rows = IF gathered.ok THEN memories ELSE <<>>,
                         !.insights = result.insights,
                         !.newConnections = result.newConnections,
                         !.recommendations = result.recommendations,
                         !.confidenceScore = result.confidenceScore]
          /\ UNCHANGED <<running, buckets, links, nextId, now, inits, agents, tasks>>

\* ------------------------------------------------------ getMemoryStats
\* _count.chunks of a bucket
ChunkCount(store, bucketName) ==
    Cardinality({id \in DOMAIN store : store[id].bucket = bucketName})

GetMemoryStats ==
    /\ last' = [Call("getMemoryStats", TRUE) EXCEPT
                   !.stats = [totalChunks |-> Cardinality(DOMAIN chunks),
                              totalLinks |-> Len(links),
                              totalReflections |-> Len(reflections),
                              buckets |->
                                  [name \in DOMAIN buckets |->
                                      [type |-> buckets[name].bucketType,
                                       chunkCount |-> ChunkCount(chunks, name)]]]]
    /\ UNCHANGED <<running, buckets, chunks, links, nextId, now, reflections, inits, agents, tasks>>

\* ------------------------------------------------- agents and their tasks
\* agent-service.ts initializeDefaultAgents: the names of the agents
ConductorName == "Sylvia Conductor"

subroutineSpecs ==
    << "Research Specialist", "Code Engineer", "Content Creator",
       "Data Analyst", "Web Specialist", "Problem Solver",
       "Learning Assistant", "Creative Thinker", "Quality Assurance",
       "Integration Expert" >>

\* prisma.agent.findFirst({ where: { name } }) found a row
AgentExists(table, name) == \E k \in DOMAIN table : table[k].name = name

\* the table with the agent created unless one has its name
WithAgent(table, name, type) ==
    IF AgentExists(table, name) THEN table
    ELSE Append(table, [name |-> name, type |-> type])

\* for (const spec of subroutineSpecs)
RECURSIVE SubroutineLoop(_, _)
SubroutineLoop(table, i) ==
    IF i > Len(subroutineSpecs) THEN table
    ELSE SubroutineLoop(WithAgent(table, subroutineSpecs[i], "SUBROUTINE"),
                        i + 1)

\* a run with no other call in between
InitializeDefaultAgents ==
    /\ agents' = SubroutineLoop(WithAgent(agents, ConductorName, "CONDUCTOR"), 1)
    /\ last' = Call("initializeDefaultAgents", TRUE)
    /\ UNCHANGED <<running, buckets, chunks, links, nextId, now, reflections, inits, tasks>>

\* prisma.agent.findFirst({ where: { type: 'CONDUCTOR' } }): the id (the
\* position) of a row found, None when there is none; the table holds one
\* conductor at most
FindConductor(table) ==
    LET found == {k \in DOMAIN table : table[k].type = "CONDUCTOR"}
    IN  IF found = {} THEN None ELSE Some(CHOOSE k \in found : TRUE)

\* the times of a task are counted in minutes
MinutesOf(time) == 60 * time

ScheduleDelay == 5      \* Date.now() + 5 * 60 * 1000
TaskPriority  == 3      \* priority: 3

\* DueTime with no delay
DueTime_Now(time) == MinutesOf(time)

\* scheduledFor of a task scheduled at time
DueTime(time) == MinutesOf(time) + ScheduleDelay

\* data of prisma.agentTask.create in scheduleReflection
ReflectionTask(agentId, memoryScope, reflectionDepth, focusAreas, time) ==
    [agentId |-> agentId, type |-> "REFLECTION", status |-> "PENDING",
     priority |-> TaskPriority,
     input |-> [triggerType |-> "scheduled", memoryScope |-> memoryScope,
                reflectionDepth |-> reflectionDepth,
                focusAreas |-> focusAreas],
     scheduledFor |-> Some(DueTime(time))]

\* depthArg and focusArg are None when the caller leaves them out (arg of
\* the call is the pair of them); the call returns the id (the position)
\* of the task, and throws when there is no conductor
ScheduleReflection(memoryScope, depthArg, focusArg) ==
    LET conductorAgent == FindConductor(agents)
    IN  IF conductorAgent = None
        THEN /\ last' = [Call("scheduleReflection", FALSE) EXCEPT
                            !.scope = memoryScope,
                            !.arg = Some(<<depthArg, focusArg>>)]
             /\ UNCHANGED <<running, buckets, chunks, links, nextId, now, reflections, inits, agents, tasks>>
        ELSE /\ tasks' = Append(tasks,
                             ReflectionTask(conductorAgent[1], memoryScope,
                                            OrElse(depthArg, "medium"),
                                            OrElse(focusArg, <<>>), now))
             /\ last' = [Call("scheduleReflection", TRUE) EXCEPT
                            !.scope = memoryScope,
                            !.arg = Some(<<depthArg, focusArg>>),
                            !.id = Len(tasks')]
             /\ UNCHANGED <<running, buckets, chunks, links, nextId, now, reflections, inits, agents>>

\* where of getPendingTasks: the task is pending, is the agent's when an
\* agent is given, and has no due time or one that has come
IsDue(task, agentIdArg, time) ==
    /\ task.status = "PENDING"
    /\ agentIdArg = None \/ task.agentId = agentIdArg[1]
    /\ task.scheduledFor = None \/ task.scheduledFor[1] <= MinutesOf(time)

\* insertion of task id x into a list ordered by priority, descending, and
\* then by creation (the order of the table)
RECURSIVE InsertByPriority(_, _, _)
InsertByPriority(sorted, x, table) ==
    IF sorted = <<>> THEN <<x>>
    ELSE IF table[Head(sorted)].priority >= table[x].priority
         THEN <<Head(sorted)>> \o InsertByPriority(Tail(sorted), x, table)
         ELSE <<x>> \o sorted

\* orderBy [{ priority: 'desc' }, { createdAt: 'asc' }] of the tasks 1..n
RECURSIVE ByPriority(_, _, _, _)
ByPriority(table, n, agentIdArg, time) ==
    IF n = 0 THEN <<>>
    ELSE LET before == ByPriority(table, n - 1, agentIdArg, time)
         IN  IF IsDue(table[n], agentIdArg, time)
             THEN InsertByPriority(before, n, table) ELSE before

\* agent-service.ts getPendingTasks; agentIdArg is None when left out
GetPendingTasks(agentIdArg) ==
    /\ last' = [Call("getPendingTasks", TRUE) EXCEPT
                   !.arg = agentIdArg,
                   !.ret = ByPriority(tasks, Len(tasks), agentIdArg, now)]
    /\ UNCHANGED <<running, buckets, chunks, links, nextId, now, reflections, inits, agents, tasks>>

\* ------------------------------ initializeMemoryBuckets, step by step
\* messages of the errors the storage raises: a second row with a name
\* that is taken, and any other failure
UniqueConstraintError == "Unique constraint failed on the fields: name"
StorageError          == "Can't reach database server"

\* error.message.includes('Unique constraint')
IncludesUniqueConstraint(message) == message = UniqueConstraintError

\* Catch that rethrows every error
Catch_Rethrow(message) == "throw"

\* the catch block of the loop: continue or throw
Catch(message) ==
    IF IncludesUniqueConstraint(message) THEN "continue" ELSE "throw"

\* a call that is at config i, about to look the bucket up (pc = "find") or
\* to create it (pc = "create"), or that has returned (pc = "done") or
\* thrown (pc = "failed"); created counts the rows it created, conflicts
\* the errors its catch block swallowed, and error is the message it threw
Running(pc, i, created, conflicts, error) ==
    [pc |-> pc, i |-> i, created |-> created, conflicts |-> conflicts,
     error |-> error]

\* the call after the body of the loop for config i ended normally, or
\* with continue
NextConfig(call) ==
    IF call.i = Len(bucketConfigs)
    THEN [call EXCEPT !.pc = "done"]
    ELSE [call EXCEPT !.pc = "find", !.i = @ + 1]

\* the call after the body threw an error with this message
Thrown(call, message) ==
    IF Catch(message) = "continue"
    THEN NextConfig([call EXCEPT !.conflicts = @ + 1])
    ELSE [call EXCEPT !.pc = "failed", !.error = message]

\* what a step of call p leaves in last: the outcome of the call once it
\* has returned or thrown
Progress(p, call) ==
    IF call.pc = "done"
    THEN [Call("initializeMemoryBuckets", TRUE) EXCEPT !.id = p]
    ELSE IF call.pc = "failed"
    THEN [Call("initializeMemoryBuckets", FALSE) EXCEPT !.id = p]
    ELSE [Call("initializeMemoryBuckets: step", TRUE) EXCEPT !.id = p]

\* a caller calls initializeMemoryBuckets
BeginInitialize(p) ==
    /\ p \notin DOMAIN inits
    /\ inits' = Put(inits, p, Running("find", 1, 0, 0, ""))
    /\ last' = Progress(p, inits'[p])
    /\ UNCHANGED <<running, buckets, chunks, links, reflections, nextId, now, agents, tasks>>

\* prisma.memoryBucket.findUnique of call p; fails: the storage fails
FindExisting(p, fails) ==
    /\ p \in DOMAIN inits
    /\ inits[p].pc = "find"
    /\ LET call   == inits[p]
           config == bucketConfigs[call.i]
       IN  inits' = [inits EXCEPT ![p] =
               IF fails THEN Thrown(call, StorageError)
               ELSE IF FindBucket(buckets, config.name) # None
               THEN NextConfig(call)
               ELSE [call EXCEPT !.pc = "create"]]
    /\ last' = Progress(p, inits'[p])
    /\ UNCHANGED <<running, buckets, chunks, links, reflections, nextId, now, agents, tasks>>

\* prisma.memoryBucket.create of call p: the name is unique in the table
CreateBucket(p, fails) ==
    /\ p \in DOMAIN inits
    /\ inits[p].pc = "create"
    /\ LET call   == inits[p]
           config == bucketConfigs[call.i]
       IN  IF fails
           THEN /\ inits' = [inits EXCEPT ![p] = Thrown(call, StorageError)]
                /\ UNCHANGED buckets
           ELSE IF config.name \in DOMAIN buckets
           THEN /\ inits' = [inits EXCEPT ![p] =
                                Thrown(call, UniqueConstraintError)]
                /\ UNCHANGED buckets
           ELSE /\ inits' = [inits EXCEPT ![p] =
                                NextConfig([call EXCEPT !.created = @ + 1])]
                /\ buckets' = Put(buckets, config.name,
                                  [bucketType |-> config.bucketType])
    /\ last' = Progress(p, inits'[p])
    /\ UNCHANGED <<running, chunks, links, reflections, nextId, now, agents, tasks>>

\* one more call or clock advance of a run of at most MaxSteps of them
Budget ==
    /\ steps < MaxSteps
    /\ steps' = steps + 1

Next ==
    \/ Budget /\ \E hours \in TickHours : Tick(hours)
    \/ Budget /\ InitializeMemoryBuckets
    \/ Budget /\ \E b \in BucketInputs, e \in Embeddings :
                        AddMemoryChunk(b, SomeText, e, SomeSource)
    \/ Budget /\ \E b \in BucketInputs, q \in QueryInputs, p \in PageInputs :
                        GetMemoriesFromBucket(b, q, p[1], p[2])
    \/ Budget /\ ApplyMemoryDecay
    \/ Budget /\ \E id \in ChunkIds, a \in BoostInputs : BoostMemory(id, a)
    \/ Budget /\ Len(links) < MaxLinks
              /\ \E id \in ChunkIds : \E t \in ChunkIds \ {id}, k \in LinkTypes :
                        CreateMemoryLink(id, t, k, None)
    \/ Budget /\ \E id \in ChunkIds, a \in BodyBoosts : PUT(id, a)

Spec == Init /\ [][Next]_vars

\* ------------------------------------- decay rates of every bucket type
NextRate ==
    \/ Budget /\ Tick(100)
    \/ Budget /\ InitializeMemoryBuckets
    \/ Budget /\ \E b \in RateBuckets :
                        AddMemoryChunk(b, SomeText, <<1, 0>>, SomeSource)
    \/ Budget /\ \E b \in RateBuckets :
                        GetMemoriesFromBucket(b, None, None, None)
    \/ Budget /\ ApplyMemoryDecay
    \/ Budget /\ \E id \in ChunkIds : BoostMemory(id, None)
    \/ Budget /\ SearchMemories(Some(<<1, 0>>), None, None)
    \/ Budget /\ GenerateReflection(
                        [memoryScope |-> <<"semantic_stm", "api_docs">>,
                         reflectionDepth |-> "medium", focusAreas |-> <<>>],
                        Conductor, FALSE, {})

SpecRate == Init /\ [][NextRate]_vars

\* ------------------------ calls of initializeMemoryBuckets that interleave
NextInit ==
    \/ Budget /\ \E p \in Callers : BeginInitialize(p)
    \/ UNCHANGED steps /\ \E p \in Callers, fails \in BOOLEAN :
                              FindExisting(p, fails)
    \/ UNCHANGED steps /\ \E p \in Callers, fails \in BOOLEAN :
                              CreateBucket(p, fails)

SpecInit == Init /\ [][NextInit]_vars

\* --------------------------------------------------------------- search
NextSearch ==
    \/ Budget /\ InitializeMemoryBuckets
    \/ Budget /\ \E b \in {"semantic_stm", "semantic_ltm"}, e \in Embeddings :
                        AddMemoryChunk(b, SomeText, e, SomeSource)
    \/ Budget /\ \E id \in ChunkIds : BoostMemory(id, Some(5000))
    \/ Budget /\ \E q \in SearchQueries, b \in BucketLists, l \in LimitInputs :
                        SearchMemories(q, b, l)

SpecSearch == Init /\ [][NextSearch]_vars

\* ---------------------------------------------------- cosine similarity
\* the function applied to a pair of vectors
InitCosine ==
    /\ buckets = <<>>
    /\ chunks = <<>>
    /\ links = <<>>
    /\ reflections = <<>>
    /\ inits = <<>>
    /\ running = <<>>
    /\ agents = <<>>
    /\ tasks = <<>>
    /\ nextId = 0
    /\ now = 0
    /\ steps = 0
    /\ \E vec1, vec2 \in Vectors :
          last = [Call("input", TRUE) EXCEPT !.arg = <<vec1, vec2>>]

ApplyCosineSimilarity ==
    /\ last.op = "input"
    /\ last' = [Call("calculateCosineSimilarity", TRUE) EXCEPT
                   !.arg = last.arg,
                   !.value = calculateCosineSimilarity(last.arg[1], last.arg[2])]
    /\ UNCHANGED <<running, buckets, chunks, links, reflections, inits, nextId, now, agents, tasks>>

NextCosine == Budget /\ ApplyCosineSimilarity

SpecCosine == InitCosine /\ [][NextCosine]_vars

\* ------------------------------------------------------------ link graph
NextLinks ==
    \/ Budget /\ InitializeMemoryBuckets
    \/ Budget /\ AddMemoryChunk("semantic_stm", SomeText, <<1, 0>>, SomeSource)
    \/ Budget /\ \E l \in LinkInputs : CreateMemoryLink(l[1], l[2], l[3], l[4])
    \/ Budget /\ \E id \in LinkQueries : GetMemoryLinks(id)

SpecLinks == Init /\ [][NextLinks]_vars

\* ------------------------------------------- every operation of the core
NextService ==
    \/ Budget /\ Tick(1000)
    \/ Budget /\ InitializeMemoryBuckets
    \/ Budget /\ AddMemoryChunk("episodic_stm", TheCatSat, <<1, 0>>, SomeSource)
    \/ Budget /\ GetMemoriesFromBucket("episodic_stm", None, None, None)
    \/ Budget /\ ApplyMemoryDecay
    \/ Budget /\ \E a \in {None, Some(-20000)} : BoostMemory(1, a)
    \/ Budget /\ SearchMemories(Some(<<1, 0>>), None, None)
    \/ Budget /\ Len(links) < MaxLinks /\ CreateMemoryLink(1, 2, "semantic", None)
    \/ Budget /\ GetMemoryLinks(1)
    \/ Budget /\ GetMemoryStats
    \/ Budget /\ GenerateReflection(DeepRequest, Conductor, FALSE, {})
              /\ Len(reflections') <= MaxReflections
    \/ Budget /\ InitializeDefaultAgents
    \/ Budget /\ ScheduleReflection(<<"episodic_stm">>, None, None)
    \/ Budget /\ GetPendingTasks(None)

SpecService == Init /\ [][NextService]_vars

\* -------------------------------------------------- scheduled reflection
NextSchedule ==
    \/ Budget /\ Tick(100)
    \/ Budget /\ InitializeDefaultAgents
    \/ Budget /\ InitializeMemoryBuckets
    \/ Budget /\ AddMemoryChunk("episodic_stm", TheCatSat, <<1, 0>>, SomeSource)
    \/ Budget /\ \E r \in ScheduleInputs : ScheduleReflection(r[1], r[2], r[3])
    \/ Budget /\ \E a \in {None, Some(1), Some(2)} : GetPendingTasks(a)

SpecSchedule == Init /\ [][NextSchedule]_vars

\* ----------------------------------------------------------- reflection
NextReflect ==
    \/ Budget /\ InitializeMemoryBuckets
    \/ Budget /\ \E t \in TextInputs :
                        AddMemoryChunk("episodic_stm", t, <<1, 0>>, SomeSource)
    \/ Budget /\ Len(links) < MaxLinks
              /\ \E id \in ChunkIds : \E t \in 1..(id - 1) :
                        CreateMemoryLink(id, t, "semantic", None)
    \/ Budget /\ \E c \in ReflectionCalls :
                  /\ GenerateReflection(c[1], Conductor, c[2][1], c[2][2])
                  /\ Len(reflections') <= MaxReflections

SpecReflect == Init /\ [][NextReflect]_vars

\* ------------------------------------------- retrieval after decay
NextReach ==
    \/ Budget /\ \E hours \in {50, 250} : Tick(hours)
    \/ Budget /\ InitializeMemoryBuckets
    \/ Budget /\ \E b \in {"semantic_stm", "semantic_ltm"} :
                        AddMemoryChunk(b, SomeText, <<1, 0>>, SomeSource)
    \/ Budget /\ ApplyMemoryDecay
    \/ Budget /\ \E id \in ChunkIds : BoostMemory(id, None)
    \/ Budget /\ \E b \in {"semantic_stm", "semantic_ltm"} :
                        GetMemoriesFromBucket(b, None, None, None)

SpecReach == Init /\ [][NextReach]_vars

\* ------------------------------------------ calls that run concurrently
\* Every await of a method is a point where the calls of other callers run.
\* A call in flight: op is the method, pc the await it is at ("done" once
\* it has returned, "failed" once it has thrown).
\*   boostMemory: id and boost are its arguments, time the new Date() of
\*     its update, row the row its update left, and stale the callers whose
\*     applyMemoryDecay held a copy of the row it had not used yet when the
\*     update was applied;
\*   applyMemoryDecay: snapshot is the result of its findMany, todo the
\*     rows its loop has not reached, counts its counters, scores the
\*     newScore of every row it reached and removed the rows it deleted;
\*   generateReflection: request is its argument, i the entry of
\*     memoryScope it is at, page the rows findMany returned for it,
\*     memories the rows gathered, missed the gathered rows that were no
\*     longer in the store when it saved, fault the step that threw and
\*     result what it returned;
\*   during holds the callers whose calls were in flight when it was made.
Flight(op, pc) ==
    [op |-> op, pc |-> pc, id |-> 0, boost |-> 0, time |-> 0, row |-> NoChunk,
     stale |-> {}, snapshot |-> <<>>, todo |-> {}, counts |-> NoCounts,
     scores |-> <<>>, removed |-> {},
     request |-> [memoryScope |-> <<>>, reflectionDepth |-> "",
                  focusAreas |-> <<>>],
     i |-> 0,
     page |-> <<>>, memories |-> <<>>, missed |-> {}, fault |-> "none",
     result |-> [insights |-> <<>>, newConnections |-> <<>>,
                 recommendations |-> <<>>, confidenceScore |-> Num(0)],
     during |-> {}]

\* the callers whose calls in the table have not returned or thrown
InFlight(calls) == {q \in DOMAIN calls : calls[q].pc \notin {"done", "failed"}}

\* what a step of a call leaves in last
Step(p, call) ==
    IF call.pc = "done" THEN [Call(call.op, TRUE) EXCEPT !.id = p]
    ELSE IF call.pc = "failed" THEN [Call(call.op, FALSE) EXCEPT !.id = p]
    ELSE [Call("step", TRUE) EXCEPT !.id = p]

\* boostMemory is called: the data of its update is built, with new Date()
BeginBoost(p, chunkId, boostArg) ==
    /\ p \notin DOMAIN running
    /\ running' = Put(running, p,
                      [Flight("boostMemory", "update") EXCEPT
                          !.id = chunkId,
                          !.boost = OrElse(boostArg, DefaultBoost),
                          !.time = now, !.during = InFlight(running)])
    /\ last' = Step(p, running'[p])
    /\ UNCHANGED <<buckets, chunks, links, reflections, inits, agents, tasks, nextId, now>>

\* FinishBoost as a write of values computed from a row read when the call
\* was made: of two calls that overlap, the one applied last overwrites
\* the increments of the other
FinishBoost_ReadThenWrite(p) ==
    /\ p \in DOMAIN running
    /\ running[p].op = "boostMemory"
    /\ running[p].pc = "update"
    /\ LET call  == running[p]
           rival == {q \in DOMAIN running :
                       /\ running[q].op = "boostMemory"
                       /\ running[q].pc = "done"
                       /\ running[q].id = call.id
                       /\ (p \in running[q].during \/ q \in call.during)}
           lost  == IF rival = {} THEN 0
                    ELSE running[CHOOSE q \in rival : TRUE].boost
       IN  IF call.id \notin DOMAIN chunks
           THEN /\ running' = [running EXCEPT ![p].pc = "failed"]
                /\ UNCHANGED chunks
           ELSE /\ chunks' = [chunks EXCEPT ![call.id] =
                      [@ EXCEPT !.score = @ - lost + call.boost,
                                !.lastAccessed = call.time,
                                !.accessCount = IF rival = {} THEN @ + 1 ELSE @]]
                /\ running' = [running EXCEPT ![p].pc = "done",
                                              ![p].row = chunks'[call.id]]
    /\ last' = Step(p, running'[p])
    /\ UNCHANGED <<buckets, links, reflections, inits, agents, tasks, nextId, now>>

\* the store applies the update of boostMemory: the increments are applied
\* to the row as it is then; an update of a row that is not there throws
FinishBoost(p) ==
    /\ p \in DOMAIN running
    /\ running[p].op = "boostMemory"
    /\ running[p].pc = "update"
    /\ LET call == running[p]
       IN  IF call.id \notin DOMAIN chunks
           THEN /\ running' = [running EXCEPT ![p].pc = "failed"]
                /\ UNCHANGED chunks
           ELSE /\ chunks' = [chunks EXCEPT ![call.id] =
                                 Boosted(@, call.boost, call.time)]
                /\ running' = [running EXCEPT
                      ![p].pc = "done",
                      ![p].row = chunks'[call.id],
                      ![p].stale = {q \in DOMAIN running :
                                      /\ running[q].op = "applyMemoryDecay"
                                      /\ running[q].pc = "scan"
                                      /\ call.id \in running[q].todo}]
    /\ last' = Step(p, running'[p])
    /\ UNCHANGED <<buckets, links, reflections, inits, agents, tasks, nextId, now>>

\* applyMemoryDecay is called: findMany() returns the rows of the table
BeginDecay(p) ==
    /\ p \notin DOMAIN running
    /\ running' = Put(running, p,
                      [Flight("applyMemoryDecay",
                              IF DOMAIN chunks = {} THEN "done" ELSE "scan")
                          EXCEPT !.snapshot = chunks, !.todo = DOMAIN chunks,
                                 !.during = InFlight(running)])
    /\ last' = Step(p, running'[p])
    /\ UNCHANGED <<buckets, chunks, links, reflections, inits, agents, tasks, nextId, now>>

\* the body of the loop of applyMemoryDecay for the next row of its
\* snapshot: newScore is computed from the row as findMany read it, and
\* the delete or update is applied to the table as it is now; a delete or
\* update of a row that is not there throws
DecayStep(p) ==
    /\ p \in DOMAIN running
    /\ running[p].op = "applyMemoryDecay"
    /\ running[p].pc = "scan"
    /\ LET call     == running[p]
           id       == CHOOSE k \in call.todo : \A m \in call.todo : k <= m
           chunk    == call.snapshot[id]
           newScore == NewScore(chunk, now)
           writes   == newScore < DeleteThreshold \/ newScore # chunk.score
           run      == DecayOne([store |-> chunks, counts |-> call.counts],
                                chunk, id, now)
       IN  IF writes /\ id \notin DOMAIN chunks
           THEN /\ running' = [running EXCEPT ![p].pc = "failed"]
                /\ UNCHANGED chunks
           ELSE /\ chunks' = run.store
                /\ running' = [running EXCEPT
                      ![p].pc = IF call.todo = {id} THEN "done" ELSE "scan",
                      ![p].todo = @ \ {id},
                      ![p].counts = run.counts,
                      ![p].scores = Put(@, id, newScore),
                      ![p].removed = IF newScore < DeleteThreshold
                                     THEN @ \cup {id} ELSE @]
    /\ last' = [Step(p, running'[p]) EXCEPT !.counts = running'[p].counts]
    /\ UNCHANGED <<buckets, links, reflections, inits, agents, tasks, nextId, now>>

\* what the catch block of generateReflection returns
Caught(call, fault) ==
    [call EXCEPT !.pc = "done", !.fault = fault, !.result = DegradedResult]

\* the call is at the next entry of memoryScope, or past the last one
NextBucket(call) ==
    IF call.i = Len(call.request.memoryScope)
    THEN [call EXCEPT !.pc = "analyse", !.page = <<>>,
                      !.memories = Take(SortGathered(@), GatherTotal)]
    ELSE [call EXCEPT !.pc = "read", !.i = @ + 1, !.page = <<>>]

\* generateReflection is called
BeginReflection(p, request) ==
    /\ p \notin DOMAIN running
    /\ running' = Put(running, p,
                      NextBucket([Flight("generateReflection", "read")
                                     EXCEPT !.request = request,
                                            !.during = InFlight(running)]))
    /\ last' = Step(p, running'[p])
    /\ UNCHANGED <<buckets, chunks, links, reflections, inits, agents, tasks, nextId, now>>

\* getMemoriesFromBucket(bucket, undefined, 50) of the gather, up to its
\* updates: findUnique of the bucket and findMany of its rows
ReadBucket(p) ==
    /\ p \in DOMAIN running
    /\ running[p].op = "generateReflection"
    /\ running[p].pc = "read"
    /\ LET call   == running[p]
           bucket == FindBucket(buckets, call.request.memoryScope[call.i])
       IN  IF bucket = None
           THEN running' = [running EXCEPT ![p] = Caught(call, "gather")]
           ELSE \E found \in Orderings(chunks, Matching(chunks, bucket[1],
                                                        DefaultMinScore)) :
                  running' = [running EXCEPT ![p] =
                      [call EXCEPT !.pc = "track",
                                   !.page = Objects(chunks,
                                               Take(found, GatherLimit),
                                               None)]]
    /\ last' = Step(p, running'[p])
    /\ UNCHANGED <<buckets, chunks, links, reflections, inits, agents, tasks, nextId, now>>

\* the updates of lastAccessed and accessCount of the rows read: the
\* update of a row that is not there any more throws, the others are
\* applied
TrackAccess(p) ==
    /\ p \in DOMAIN running
    /\ running[p].op = "generateReflection"
    /\ running[p].pc = "track"
    /\ LET call == running[p]
           ids  == {call.page[k].id : k \in DOMAIN call.page}
       IN  /\ chunks' = Touch(chunks, ids, now)
           /\ running' = [running EXCEPT ![p] =
                  IF ids \subseteq DOMAIN chunks
                  THEN NextBucket([call EXCEPT !.memories = @ \o call.page])
                  ELSE Caught(call, "gather")]
    /\ last' = Step(p, running'[p])
    /\ UNCHANGED <<buckets, links, reflections, inits, agents, tasks, nextId, now>>

\* the rest of generateReflection: analysis, discovery, recommendations
\* and saveReflections.  strict: the store checks that the chunk of a
\* reflection row exists, and rejects the create of a row for a chunk that
\* is not there
FinishReflection(p, strict) ==
    /\ p \in DOMAIN running
    /\ running[p].op = "generateReflection"
    /\ running[p].pc = "analyse"
    /\ LET call     == running[p]
           memories == call.memories
           request  == call.request
           insights == analyzeMemories(memories, request.reflectionDepth,
                                       request.focusAreas, now)
           found    == discoverMemoryConnections(memories, links, FALSE, now)
           creates  == 1..Min(SaveLimit, Len(memories))
           missed   == {k \in creates : memories[k].id \notin DOMAIN chunks}
           rejected == IF strict THEN missed ELSE {}
           saved    == saveReflections(memories, insights, Conductor,
                                       rejected, now)
       IN  /\ reflections' = reflections \o saved
           /\ running' = [running EXCEPT ![p] =
                  IF rejected # {}
                  THEN [Caught(call, "persist") EXCEPT !.missed = missed]
                  ELSE [call EXCEPT
                          !.pc = "done",
                          !.missed = missed,
                          !.result =
                              [insights |-> insights,
                               newConnections |-> found.ret,
                               recommendations |->
                                   generateRecommendations(insights, memories),
                               confidenceScore |->
                                   calculateConfidenceScore(memories, insights)]]]
    /\ last' = Step(p, running'[p])
    /\ UNCHANGED <<buckets, chunks, links, inits, agents, tasks, nextId, now>>

\* a store in use: chunk 1 was added to episodic_stm at hour 0 and a run
\* of applyMemoryDecay at hour RaceDecayed stored its new score, chunk 2
\* was added at hour RaceAdded, and it is hour RaceNow
RaceDecayed == 140
MaxRaceSteps == 2       \* clock advances and link queries while calls interleave
RaceAdded   == 240
RaceNow     == 250

RaceChunk(text, time) ==
    NewChunk("episodic_stm", text, <<1, 0>>, SomeSource,
             DecayRateOf(InitLoop(<<>>, 1)["episodic_stm"].bucketType), time)

RaceStore ==
    <<[RaceChunk(TheCatSat, 0) EXCEPT
          !.score = NewScore(RaceChunk(TheCatSat, 0), RaceDecayed)],
      RaceChunk(ACatSits, RaceAdded)>>

InitRace ==
    /\ buckets = InitLoop(<<>>, 1)
    /\ chunks = RaceStore
    /\ nextId = Len(RaceStore)
    /\ links = <<>>
    /\ reflections = <<>>
    /\ inits = <<>>
    /\ running = <<>>
    /\ agents = <<>>
    /\ tasks = <<>>
    /\ now = RaceNow
    /\ steps = 0
    /\ last = Call("none", TRUE)

RaceRequest ==
    [memoryScope |-> <<"episodic_stm">>, reflectionDepth |-> "shallow",
     focusAreas |-> <<>>]

\* each caller makes one call; the steps of the calls interleave
NextRace ==
    \/ Budget /\ steps < MaxRaceSteps /\ Tick(1)
    \/ Budget /\ steps < MaxRaceSteps /\ \E id \in ChunkIds : GetMemoryLinks(id)
    \/ UNCHANGED steps /\ \E p \in Callers, id \in ChunkIds, a \in RaceBoosts :
                              BeginBoost(p, id, a)
    \/ UNCHANGED steps /\ \E p \in Callers : FinishBoost(p)
    \/ UNCHANGED steps /\ \E p \in Callers : BeginDecay(p)
    \/ UNCHANGED steps /\ \E p \in Callers : DecayStep(p)
    \/ UNCHANGED steps /\ \E p \in Callers : BeginReflection(p, RaceRequest)
    \/ UNCHANGED steps /\ \E p \in Callers : ReadBucket(p)
    \/ UNCHANGED steps /\ \E p \in Callers : TrackAccess(p)
    \/ UNCHANGED steps /\ \E p \in Callers, strict \in BOOLEAN :
                              FinishReflection(p, strict)

SpecRace == InitRace /\ [][NextRace]_vars

\* ------------------------------------------- decay that keeps being run
\* a store whose chunks were added at hour 0 to a bucket of type LTM, the
\* slowest to decay, and to a bucket of a type with no rate of its own
PruneStore ==
    <<NewChunk("semantic_ltm", SomeText, <<1, 0>>, SomeSource,
               DecayRateOf(InitLoop(<<>>, 1)["semantic_ltm"].bucketType), 0),
      NewChunk("api_docs", SomeText, <<1, 0>>, SomeSource,
               DecayRateOf(InitLoop(<<>>, 1)["api_docs"].bucketType), 0)>>

InitPrune ==
    /\ buckets = InitLoop(<<>>, 1)
    /\ chunks = PruneStore
    /\ nextId = Len(PruneStore)
    /\ links = <<>>
    /\ reflections = <<>>
    /\ inits = <<>>
    /\ running = <<>>
    /\ agents = <<>>
    /\ tasks = <<>>
    /\ now = 0
    /\ steps = 0
    /\ last = Call("none", TRUE)

PruneHours   == 1000    \* the hours between two runs of applyMemoryDecay
PruneHorizon == 4000    \* the clock stops at this hour or within PruneHours of it
MaxUses      == 2       \* boosts and retrievals in one run

\* time advances
PruneTick == now < PruneHorizon /\ Tick(PruneHours) /\ UNCHANGED steps

\* applyMemoryDecay is run
PruneDecay == ApplyMemoryDecay /\ UNCHANGED steps

\* steps counts the boosts and retrievals
NextPrune ==
    \/ PruneTick
    \/ PruneDecay
    \/ Budget /\ steps < MaxUses
              /\ \E id \in DOMAIN PruneStore : BoostMemory(id, None)
    \/ Budget /\ steps < MaxUses
              /\ \E b \in {"semantic_ltm", "api_docs"} :
                        GetMemoriesFromBucket(b, None, None, None)

\* time keeps advancing and applyMemoryDecay keeps being run
SpecPrune ==
    InitPrune /\ [][NextPrune]_vars /\ WF_vars(PruneTick) /\ WF_vars(PruneDecay)

\* ----------------------------------------------------- a stocked store
LearningNeverStops == <<"learning", WS, "never", WS, "stops">>

\* the hour a stocked store is met at
StockedNow == 200

\* the numbers of chunks of episodic_stm, semantic_stm and diary_rl in a
\* stocked store: a few, more than one chunk is compared with, more than
\* saveReflections saves, and more than gatherMemoriesForReflection takes
\* from one bucket and returns in all
Shapes ==
    {<<ConnectionLimit - 1, 0, 0>>,
     <<ConnectionLimit + 2, 0, 0>>,
     <<SaveLimit + 1, 0, 0>>,
     <<GatherLimit + 1, GatherLimit \div 2 + 1, GatherLimit \div 2>>}

\* chunk id of a stocked store, the k-th chunk of its bucket: addMemoryChunk
\* created it at StockedNow, 100 or 200 hours before, retrievals and boosts
\* since then left it its score, lastAccessed and accessCount; the scores
\* of the chunks of one bucket differ
StockedChunk(id, bucketName, k) ==
    LET timestamp == StockedNow - 100 * (id % 3)
        accessed  == StockedNow - 10 * (id % 7)
    IN  Chunk(bucketName,
              CASE id % 4 = 0 -> TheCatSat
                [] id % 4 = 1 -> TheCatSatCapital
                [] id % 4 = 2 -> ACatSits
                [] OTHER      -> LearningNeverStops,
              <<1, 0>>,
              IF id % 2 = 0 THEN SomeSource ELSE "learning_module",
              30000 - 500 * k,
              timestamp,
              IF accessed < timestamp THEN timestamp ELSE accessed,
              id % 5,
              DecayRateOf(InitLoop(<<>>, 1)[bucketName].bucketType))

\* the chunk table of a stocked store of the shape
StockedStore(shape) ==
    [id \in 1..(shape[1] + shape[2] + shape[3]) |->
        IF id <= shape[1] THEN StockedChunk(id, AllThree[1], id)
        ELSE IF id <= shape[1] + shape[2]
             THEN StockedChunk(id, AllThree[2], id - shape[1])
             ELSE StockedChunk(id, AllThree[3], id - shape[1] - shape[2])]

\* the service is met with its buckets created and chunks in them
InitStocked ==
    /\ buckets = InitLoop(<<>>, 1)
    /\ \E shape \in Shapes :
          /\ chunks = StockedStore(shape)
          /\ nextId = shape[1] + shape[2] + shape[3]
    /\ links = <<>>
    /\ reflections = <<>>
    /\ inits = <<>>
    /\ running = <<>>
    /\ agents = <<>>
    /\ tasks = <<>>
    /\ now = StockedNow
    /\ steps = 0
    /\ last = Call("none", TRUE)

\* ------------------------------------ reflection over a stocked store
NextPass ==
    \/ Budget /\ steps < MaxPasses /\ Tick(1)
    \/ Budget /\ steps < MaxPasses /\ Len(links) < MaxLinks
              /\ \E l \in PassLinks : CreateMemoryLink(l[1], l[2], "semantic", None)
    \/ Budget /\ steps < MaxPasses
              /\ \E r \in PassRequests :
                        GenerateReflection(r, Conductor, FALSE, {})

SpecPass == InitStocked /\ [][NextPass]_vars

\* ================================================================ claims
\* a change of score that counts as negligible: 0.001
Negligible == SCALE \div 1000

\* the step is a call of op (every call and every clock advance sets last)
Called(op) == last'.op = op

\* C1: of two applyMemoryDecay runs in succession, with no time elapsing
\* and no other call in between, the second changes the score of every
\* chunk that survives it by at most a negligible amount.
C1_SecondDecayIsStable ==
    [][(last.op = "applyMemoryDecay" /\ Called("applyMemoryDecay")) =>
         \A id \in DOMAIN chunks' :
             Abs(chunks'[id].score - chunks[id].score) <= Negligible]_vars

\* C2: after an applyMemoryDecay run at time T every chunk c of the store,
\* with h the hours from c.lastAccessed to T, is absent when
\* c.score * c.decayRate^h < 0.05 and is otherwise present with that score;
\* a chunk of score 1.0 and rate 0.990 is retained after 100 hours and
\* deleted after 1000 hours.
C2_DecayThreshold ==
    [][Called("applyMemoryDecay") =>
         \A id \in DOMAIN chunks :
            LET c == chunks[id]
                h == now - c.lastAccessed
                d == Mul(c.score, Pow(c.decayRate, h))
            IN  /\ 20 * d < SCALE  => id \notin DOMAIN chunks'
                /\ 20 * d >= SCALE => /\ id \in DOMAIN chunks'
                                      /\ chunks'[id].score = d
                /\ (c.score = SCALE /\ c.decayRate = 9900 /\ h = 100)
                       => id \in DOMAIN chunks'
                /\ (c.score = SCALE /\ c.decayRate = 9900 /\ h = 1000)
                       => id \notin DOMAIN chunks']_vars

\* C2 witness: a run that deleted one chunk and kept another, decayed
C2_Witness ==
    /\ last.op = "applyMemoryDecay"
    /\ last.counts.deleted = 1
    /\ \E id \in DOMAIN chunks :
          /\ chunks[id].score < DefaultScore
          /\ chunks[id].accessCount = 0

\* C3: applyMemoryDecay never increases the score of a chunk whose
\* lastAccessed lies in the past and whose decayRate is below 1.
C3_DecayNeverIncreases ==
    [][Called("applyMemoryDecay") =>
         \A id \in (DOMAIN chunks) \cap (DOMAIN chunks') :
            (now - chunks[id].lastAccessed > 0 /\ chunks[id].decayRate < SCALE)
               => chunks'[id].score <= chunks[id].score]_vars

\* C3 witness: a run that lowered the score of a chunk that had been
\* boosted above its initial score
C3_Witness ==
    /\ last.op = "applyMemoryDecay"
    /\ last.counts.decayed > 0
    /\ \E id \in DOMAIN chunks :
          /\ chunks[id].accessCount > 0
          /\ chunks[id].lastAccessed < now
          /\ chunks[id].score > 0

\* the amount a boostMemory call adds: 0.1 when none is given
AmountOf(arg) == IF arg = None THEN SCALE \div 10 ELSE arg[1]

\* C4: every boostMemory on an existing chunk adds its amount (0.1 when
\* none is given) to score, adds 1 to accessCount and sets lastAccessed to
\* the time of the call; boost x followed by boost y of the same chunk
\* leaves score = score_before + x + y and accessCount increased by 2.
C4_BoostAdditive ==
    [][(Called("boostMemory") /\ last'.ok) =>
         LET id == last'.id
             y  == AmountOf(last'.arg)
         IN  /\ id \in DOMAIN chunks /\ id \in DOMAIN chunks'
             /\ chunks'[id].score = chunks[id].score + y
             /\ chunks'[id].accessCount = chunks[id].accessCount + 1
             /\ chunks'[id].lastAccessed = now'
             /\ (last.op = "boostMemory" /\ last.ok /\ last.id = id) =>
                   /\ chunks'[id].score =
                          last.row.score + AmountOf(last.arg) + y
                   /\ chunks'[id].accessCount = last.row.accessCount + 2]_vars

\* C4 witness: a new chunk after boosts of 0.5 and of the default amount
C4_Witness ==
    /\ last.op = "boostMemory" /\ last.ok
    /\ chunks[last.id].score = DefaultScore + 5000 + DefaultBoost
    /\ chunks[last.id].accessCount = 2
    /\ last.row.accessCount = 1

\* C5: in every reachable state every stored chunk has score >= 0 and a
\* decayRate strictly between 0 and 1.
C5_ScoreNeverNegative ==
    \A id \in DOMAIN chunks :
        /\ chunks[id].score >= 0
        /\ 0 < chunks[id].decayRate /\ chunks[id].decayRate < SCALE

\* the list s holds no id twice
NoRepeats(s) == \A i, j \in DOMAIN s : i # j => s[i] # s[j]

\* C6: a successful getMemoriesFromBucket adds 1 to accessCount and sets
\* lastAccessed to the time of the call on every chunk it returns, each
\* returned once, and leaves their score and decayRate as they were; every
\* other chunk is unchanged and none is added or removed.
C6_RetrievalIsAccess ==
    [][(Called("getMemoriesFromBucket") /\ last'.ok) =>
         /\ NoRepeats(last'.ret)
         /\ DOMAIN chunks' = DOMAIN chunks
         /\ \A id \in DOMAIN chunks :
               IF id \in Range(last'.ret)
               THEN /\ chunks'[id].accessCount = chunks[id].accessCount + 1
                    /\ chunks'[id].lastAccessed = now'
                    /\ chunks'[id].score = chunks[id].score
                    /\ chunks'[id].decayRate = chunks[id].decayRate
               ELSE chunks'[id] = chunks[id]]_vars

\* C6 witness: a call that returned one chunk of a bucket and left out
\* another chunk of the same bucket
C6_Witness ==
    /\ last.op = "getMemoriesFromBucket" /\ last.ok
    /\ Len(last.ret) = 1
    /\ chunks[last.ret[1]].accessCount = 1
    /\ \E id \in DOMAIN chunks :
          /\ id # last.ret[1]
          /\ chunks[id].bucket = chunks[last.ret[1]].bucket
          /\ chunks[id].accessCount = 0

\* the list is non-increasing in score and, among equal scores,
\* non-increasing in lastAccessed, by the rows of store
InScoreOrder(s, store) ==
    \A i, j \in DOMAIN s :
        i < j => \/ store[s[i]].score > store[s[j]].score
                 \/ /\ store[s[i]].score = store[s[j]].score
                    /\ store[s[i]].lastAccessed >= store[s[j]].lastAccessed

\* C7 as stated: the list every getMemoriesFromBucket call on a registered
\* bucket returns is non-increasing in score and, among equal scores,
\* non-increasing in lastAccessed.
C7_AlwaysInScoreOrder ==
    [][(Called("getMemoriesFromBucket") /\ last'.ok) =>
         InScoreOrder(last'.ret, chunks)]_vars

\* the call was given a query embedding that is not empty
WithQuery(call) == call.arg # None /\ Len(call.arg[1]) > 0

\* C7 amended: the list a getMemoriesFromBucket call on a registered bucket
\* returns when it is given no query embedding, or an empty one, is
\* non-increasing in score and, among equal scores, non-increasing in
\* lastAccessed.
C7_InScoreOrderWithoutQuery ==
    [][(Called("getMemoriesFromBucket") /\ last'.ok /\ ~WithQuery(last')) =>
         InScoreOrder(last'.ret, chunks)]_vars

\* C7 witness: a call without query that returned two chunks, the first
\* with the higher score
C7_Witness ==
    /\ last.op = "getMemoriesFromBucket" /\ last.ok /\ ~WithQuery(last)
    /\ Len(last.ret) = 2
    /\ chunks[last.ret[1]].score > chunks[last.ret[2]].score

\* C8: getMemoriesFromBucket with a bucket name that is not registered
\* fails, and a failed call leaves buckets, chunks and links unchanged.
C8_UnknownBucketGet ==
    [][Called("getMemoriesFromBucket") =>
         /\ last'.bucket \notin DOMAIN buckets => ~last'.ok
         /\ ~last'.ok => /\ last'.bucket \notin DOMAIN buckets
                         /\ UNCHANGED <<running, buckets, chunks, links,
                                        reflections, inits, agents, tasks>>]_vars

\* C8 witness: a failed call on a store that holds buckets, a chunk and a
\* link
C8_Witness ==
    /\ last.op = "getMemoriesFromBucket" /\ ~last.ok
    /\ DOMAIN buckets # {}
    /\ DOMAIN chunks # {}
    /\ links # <<>>

\* C9: addMemoryChunk with a bucket name that is not registered fails and
\* creates no chunk: the chunks of the store are unchanged.
C9_UnknownBucketAdd ==
    [][Called("addMemoryChunk") =>
         /\ last'.bucket \notin DOMAIN buckets => ~last'.ok
         /\ ~last'.ok => /\ last'.bucket \notin DOMAIN buckets
                         /\ UNCHANGED <<running, chunks, nextId, reflections, inits, agents, tasks>>]_vars

\* C9 witness: a failed call before initializeMemoryBuckets has run
C9_Witness ==
    /\ last.op = "addMemoryChunk" /\ ~last.ok
    /\ last.bucket = "semantic_stm"
    /\ DOMAIN buckets = {}

\* C10: a successful addMemoryChunk adds exactly one chunk, owned by the
\* named bucket, and returns it with score = 1.0, accessCount = 0 and
\* lastAccessed equal to the creation time; no existing chunk is modified.
C10_AddCreatesOne ==
    [][(Called("addMemoryChunk") /\ last'.ok) =>
         /\ last'.id \notin DOMAIN chunks
         /\ DOMAIN chunks' = DOMAIN chunks \cup {last'.id}
         /\ \A id \in DOMAIN chunks : chunks'[id] = chunks[id]
         /\ chunks'[last'.id] = last'.row
         /\ last'.row.bucket = last'.bucket
         /\ last'.row.score = SCALE
         /\ last'.row.accessCount = 0
         /\ last'.row.lastAccessed = now']_vars

\* C10 witness: a second chunk added to the bucket of a chunk that has
\* been accessed since
C10_Witness ==
    /\ last.op = "addMemoryChunk" /\ last.ok
    /\ \E id \in DOMAIN chunks :
          /\ id # last.id
          /\ chunks[id].bucket = last.bucket
          /\ chunks[id].accessCount > 0

\* the bucket table holds exactly the configured buckets, each with its
\* configured type
Canonical(rows) ==
    /\ DOMAIN rows = Range(MEMORY_BUCKET_NAMES)
    /\ \A i \in DOMAIN bucketConfigs :
          rows[bucketConfigs[i].name].bucketType = bucketConfigs[i].bucketType

\* C12: a run of initializeMemoryBuckets with no other call in between ends
\* without error with exactly the ten canonical buckets, each with its
\* configured type; it creates only buckets that were missing, changes and
\* deletes no bucket and no chunk, and on a store that already holds the
\* ten buckets it changes nothing.
C12_InitIdempotent ==
    [][Called("initializeMemoryBuckets") =>
         /\ last'.ok
         /\ Len(MEMORY_BUCKET_NAMES) = 10
         /\ Cardinality(DOMAIN buckets') = 10
         /\ Canonical(buckets')
         /\ \A name \in DOMAIN buckets : buckets'[name] = buckets[name]
         /\ Canonical(buckets) => buckets' = buckets
         /\ UNCHANGED <<running, chunks, links, reflections, agents, tasks>>]_vars

\* C12 witness: a run after chunks were stored, so on a store that an
\* earlier run had initialised
C12_Witness ==
    /\ last.op = "initializeMemoryBuckets" /\ last.ok
    /\ DOMAIN chunks # {}
    /\ Canonical(buckets)

\* the decay rates the table gives a chunk of a bucket of this type: the
\* rate of the type for STM, LTM and RL, and some rate of the table for
\* DOCS and MISC
TableRates(bucketType) ==
    IF bucketType = "STM" THEN {9900}
    ELSE IF bucketType = "LTM" THEN {9990}
    ELSE IF bucketType = "RL" THEN {9950}
    ELSE {9900, 9990, 9950}

\* C11: the decay rate of a chunk is fixed when it is created, at the rate
\* the table gives for the type of its bucket (STM 0.990, LTM 0.999, RL
\* 0.995, and a rate of that table for DOCS and MISC), and no later
\* operation (boost, retrieval, search, decay, reflection) changes it.
C11_DecayRateFixed ==
    [][/\ \A id \in DOMAIN chunks' \ DOMAIN chunks :
             chunks'[id].decayRate \in
                 TableRates(buckets[chunks'[id].bucket].bucketType)
       /\ \A id \in DOMAIN chunks' \cap DOMAIN chunks :
             chunks'[id].decayRate = chunks[id].decayRate]_vars

\* C11 witness: a decay run that lowered the score of a chunk of the
\* api_docs bucket that had been accessed since it was created
C11_Witness ==
    /\ last.op = "applyMemoryDecay" /\ last.counts.decayed > 0
    /\ \E id \in DOMAIN chunks :
          /\ chunks[id].bucket = "api_docs"
          /\ chunks[id].accessCount > 0
          /\ chunks[id].score < SCALE + DefaultBoost

\* C13: when calls of initializeMemoryBuckets interleave, a call fails
\* only with a storage failure that is not a duplicate-name conflict, and
\* that failure is what it throws; a call that met a conflict goes on with
\* the remaining configs, so that every config a call has passed has its
\* bucket and a call that returns leaves the ten canonical buckets; the
\* table never holds a bucket that is not configured, or with another
\* type, or two buckets of one name.
C13_InterleavedInit ==
    /\ \A p \in DOMAIN inits :
          /\ inits[p].pc = "failed" => inits[p].error = StorageError
          /\ inits[p].pc = "done" => Canonical(buckets)
          /\ inits[p].pc \in {"find", "create"} =>
                \A k \in 1..(inits[p].i - 1) :
                    bucketConfigs[k].name \in DOMAIN buckets
    /\ \A name \in DOMAIN buckets :
          \E k \in DOMAIN bucketConfigs :
              /\ bucketConfigs[k].name = name
              /\ bucketConfigs[k].bucketType = buckets[name].bucketType
    /\ Cardinality(DOMAIN buckets) <= Len(bucketConfigs)

\* C13 witness: two calls have returned; one of them met a conflict and
\* created a bucket of a later config
C13_Witness ==
    \E p, q \in DOMAIN inits :
        /\ p # q
        /\ inits[p].pc = "done" /\ inits[q].pc = "done"
        /\ inits[p].conflicts > 0 /\ inits[p].created > 0
        /\ inits[q].created > 0
        /\ Canonical(buckets)

\* the number of returned objects that come from the bucket
FromBucket(rows, bucketName) ==
    Cardinality({i \in DOMAIN rows : rows[i].row.bucket = bucketName})

\* C14: a search returns at most limit chunks, at most
\* ceil(limit / bucketCount) of them from each searched bucket, ordered by
\* cosine similarity, descending, across the buckets; with no query vector
\* they are ordered by score, descending.
C14_SearchOrder ==
    (last.op = "searchMemories" /\ last.ok) =>
        /\ Len(last.rows) <= last.limit
        /\ \A i \in DOMAIN last.scope :
              FromBucket(last.rows, last.scope[i])
                  <= CeilDiv(last.limit, Len(last.scope))
        /\ WithQuery(last) =>
              \A i, j \in DOMAIN last.rows :
                  i < j => ~Less(Ratio(last.rows[i].similarity[1]),
                                 Ratio(last.rows[j].similarity[1]))
        /\ ~WithQuery(last) =>
              \A i, j \in DOMAIN last.rows :
                  i < j => last.rows[i].row.score >= last.rows[j].row.score

\* C15: a search of semantic_stm and semantic_ltm with a query vector that
\* is the embedding of a chunk stored in one of them returns a chunk with
\* that embedding first.
C15_IdenticalFirst ==
    [][(/\ Called("searchMemories") /\ last'.ok /\ WithQuery(last')
        /\ last'.scope = <<"semantic_stm", "semantic_ltm">>
        /\ \E id \in DOMAIN chunks :
              chunks[id].embedding = last'.arg[1]) =>
          /\ last'.rows # <<>>
          /\ last'.rows[1].row.embedding = last'.arg[1]]_vars

\* every element of the vector is 0 (so is the empty vector)
IsZeroVector(vec) == \A i \in DOMAIN vec : vec[i] = 0

One == [num |-> 1, den |-> 1]
MinusOne == [num |-> -1, den |-> 1]

\* C16: calculateCosineSimilarity returns without error; it is symmetric
\* in its arguments; it is exactly 0 when the vectors differ in length or
\* one of them is zero or empty; and for two non-zero vectors of equal
\* length it lies in [-1, 1].
C16_CosineProperties ==
    last.op = "calculateCosineSimilarity" =>
        LET vec1 == last.arg[1]
            vec2 == last.arg[2]
        IN  /\ last.ok
            /\ last.value = calculateCosineSimilarity(vec2, vec1)
            /\ (Len(vec1) # Len(vec2) \/ IsZeroVector(vec1) \/ IsZeroVector(vec2))
                  => last.value = Zero
            /\ (Len(vec1) = Len(vec2) /\ ~IsZeroVector(vec1) /\ ~IsZeroVector(vec2))
                  => /\ ~Less(Ratio(last.value), MinusOne)
                     /\ ~Less(One, Ratio(last.value))

\* the unordered pair of chunks a candidate link joins
PairOf(connection) == {connection.sourceId, connection.targetId}

\* C17: the discovery step of a reflection leaves the link table as it
\* was, so that no run of it, repeated or not, adds a second link between
\* two chunks; and the candidates of one pass join different unordered
\* pairs of chunks.
C17_NoPairTwice ==
    [][(Called("generateReflection") /\ last'.fault = "none") =>
         /\ links' = links
         /\ \A i, j \in DOMAIN last'.newConnections :
               i < j => PairOf(last'.newConnections[i])
                            # PairOf(last'.newConnections[j])]_vars

\* the Jaccard similarity of the token sets of two texts is num / den
IsJaccard(ratio, text1, text2) ==
    LET words1 == Range(Split(ToLowerCase(text1)))
        words2 == Range(Split(ToLowerCase(text2)))
    IN  ratio.num * Cardinality(words1 \cup words2)
            = Cardinality(words1 \cap words2) * ratio.den

\* the gathered sample is the two chunks of episodic_stm with the texts
\* "the cat sat on the mat" and "a cat sits on a mat", not linked
CatSentences(call, table) ==
    /\ Len(call.rows) = 2
    /\ {call.rows[1].row.text, call.rows[2].row.text} = {TheCatSat, ACatSits}
    /\ call.rows[1].row.bucket = "episodic_stm"
    /\ call.rows[2].row.bucket = "episodic_stm"
    /\ ~ExistingLink(table, call.rows[1].id, call.rows[2].id)

\* C18: for these two chunks discovery yields exactly one candidate link,
\* of type semantic, with the Jaccard similarity of their token sets as
\* its strength, and that similarity is above 0.7.
C18_CatSentencesLinked ==
    [][(/\ Called("generateReflection") /\ last'.fault = "none"
        /\ CatSentences(last', links)) =>
          /\ Len(last'.newConnections) = 1
          /\ last'.newConnections[1].linkType = "semantic"
          /\ IsJaccard(last'.newConnections[1].strength, TheCatSat, ACatSits)
          /\ Less(RatioOfFixed(7000), last'.newConnections[1].strength)]_vars

\* C18 amended: the Jaccard similarity of the token sets of these two texts
\* is 3/7, not above 0.7, and discovery yields no candidate link for the
\* two chunks; every candidate discovery yields is of type semantic and
\* joins two gathered chunks whose token sets have a Jaccard similarity
\* above 0.7, which is its strength.
C18_CandidatesAboveThreshold ==
    [][(Called("generateReflection") /\ last'.fault = "none") =>
         /\ CatSentences(last', links) =>
               /\ last'.newConnections = <<>>
               /\ IsJaccard([num |-> 3, den |-> 7], TheCatSat, ACatSits)
         /\ \A k \in DOMAIN last'.newConnections :
               LET connection == last'.newConnections[k]
               IN  /\ connection.linkType = "semantic"
                   /\ Less(RatioOfFixed(7000), connection.strength)
                   /\ \E i, j \in DOMAIN last'.rows :
                         /\ i < j
                         /\ connection.sourceId = last'.rows[i].id
                         /\ connection.targetId = last'.rows[j].id
                         /\ IsJaccard(connection.strength,
                                      last'.rows[i].row.text,
                                      last'.rows[j].row.text)]_vars

\* C18 witness: a reflection that completed over the two chunks, unlinked
C18_Witness ==
    /\ last.op = "generateReflection" /\ last.fault = "none"
    /\ CatSentences(last, links)
    /\ last.newConnections = <<>>

\* the call returned the degraded result
Degraded(call) ==
    /\ call.insights = <<Insight("Error generating reflection insights", 0)>>
    /\ call.newConnections = <<>>
    /\ call.recommendations
           = <<"Unable to generate recommendations at this time">>
    /\ call.confidenceScore = Num(0)

\* C19: generateReflection returns to its caller whatever fails; when a
\* step of it fails, and so when the scope names a bucket that is not
\* registered, it returns the degraded result: one placeholder insight,
\* no new connections, one placeholder recommendation and a confidence
\* score of 0.
C19_NeverRaises ==
    [][Called("generateReflection") =>
         /\ last'.ok
         /\ last'.fault # "none" => Degraded(last')
         /\ (\E i \in DOMAIN last'.scope : last'.scope[i] \notin DOMAIN buckets)
               => last'.fault = "gather"]_vars

\* C19 witness: a call that failed while it saved its reflections, after
\* it had touched the chunks it gathered
C19_Witness ==
    /\ last.op = "generateReflection" /\ last.ok
    /\ last.fault = "persist"
    /\ \E id \in DOMAIN chunks : chunks[id].accessCount > 0

\* C20: the confidence score of a reflection that completed is a number
\* in [0, 1], whatever was gathered, chunks or none.
C20_ConfidenceInRange ==
    (last.op = "generateReflection" /\ last.fault = "none") =>
        /\ ~last.confidenceScore.nan
        /\ last.confidenceScore.val >= 0
        /\ last.confidenceScore.val <= SCALE

\* the tables and the clock, all but the link table
AllButLinks == <<buckets, chunks, reflections, inits, agents, tasks, nextId, now>>

\* C21: getMemoryLinks(chunkId) returns as outgoing the links whose source
\* is chunkId and as incoming the links whose target is chunkId, no more
\* and no fewer, and changes neither a table nor the clock; it returns, and
\* returns two empty lists, when no link names the id, whether a chunk has
\* that id or not.
C21_LinksOfChunk ==
    [][Called("getMemoryLinks") =>
         LET id == last'.id
         IN  /\ last'.ok
             /\ \A k \in DOMAIN links :
                   /\ k \in last'.outgoing <=> links[k].sourceId = id
                   /\ k \in last'.incoming <=> links[k].targetId = id
             /\ last'.outgoing \cup last'.incoming \subseteq DOMAIN links
             /\ (\A k \in DOMAIN links :
                    links[k].sourceId # id /\ links[k].targetId # id)
                  => last'.outgoing = {} /\ last'.incoming = {}
             /\ UNCHANGED <<running, links, AllButLinks>>]_vars

\* C21 witness: a call for a chunk that has a link to another chunk and a
\* link from it
C21_Witness ==
    /\ last.op = "getMemoryLinks"
    /\ last.id \in DOMAIN chunks
    /\ last.outgoing # {} /\ last.incoming # {}
    /\ last.outgoing \cap last.incoming = {}

\* C22: every call of createMemoryLink that returns appends one link with
\* the source, target and type it was given and the strength it was given,
\* 1.0 when none was given; it does so whether or not the table holds a
\* link between the two chunks, and leaves the links the table held as
\* they were.
C22_UnconditionalInsert ==
    [][(Called("createMemoryLink") /\ last'.ok) =>
         /\ Len(links') = Len(links) + 1
         /\ SubSeq(links', 1, Len(links)) = links
         /\ links'[Len(links')] = last'.link
         /\ last'.link.sourceId = last'.id
         /\ last'.link.strength
               = IF last'.arg = None THEN SCALE ELSE last'.arg[1]
         /\ UNCHANGED AllButLinks]_vars

\* C22 witness: a second call with the source and the target of the first
C22_Witness ==
    /\ last.op = "createMemoryLink"
    /\ Len(links) = 2
    /\ links[1].sourceId = links[2].sourceId
    /\ links[1].targetId = links[2].targetId
    /\ links[1].strength = SCALE

\* C23: a run of applyMemoryDecay leaves every column but score of every
\* chunk it retains as it was, lastAccessed and accessCount among them, and
\* writes a retained chunk only when its new score differs from its
\* score: the rows it updated are the retained rows whose score changed.
C23_DecayIsNoAccess ==
    [][Called("applyMemoryDecay") =>
         /\ DOMAIN chunks' \subseteq DOMAIN chunks
         /\ \A id \in DOMAIN chunks' :
               /\ chunks'[id] = [chunks[id] EXCEPT !.score = chunks'[id].score]
               /\ chunks'[id].score = NewScore(chunks[id], now)
         /\ last'.counts.decayed
               = Cardinality({id \in DOMAIN chunks' :
                                 NewScore(chunks[id], now) # chunks[id].score})]_vars

\* C23 witness: a run that updated the score of a chunk last accessed
\* before the run and did not write a chunk accessed at the time of the run
C23_Witness ==
    /\ last.op = "applyMemoryDecay"
    /\ last.counts.decayed = 1
    /\ \E a, b \in DOMAIN chunks :
          /\ chunks[a].lastAccessed < now /\ chunks[a].score < DefaultScore
          /\ chunks[b].lastAccessed = now /\ chunks[b].score = DefaultScore

\* the rows of the named bucket whose score is at least minScore
Qualifying(store, bucketName, minScore) ==
    {id \in DOMAIN store :
        store[id].bucket = bucketName /\ store[id].score >= minScore}

\* C30: getMemoriesFromBucket returns chunks of the named bucket whose
\* score is at least minScore and no others, at most limit of them and
\* none twice, and no qualifying chunk it leaves out has a higher score
\* than a chunk it returns.
C30_HighestScoredPage ==
    [][(Called("getMemoriesFromBucket") /\ last'.ok) =>
         LET ret == last'.ret
             qualifying == Qualifying(chunks, last'.bucket, last'.minScore)
         IN  /\ Range(ret) \subseteq qualifying
             /\ Len(ret) <= last'.limit
             /\ Cardinality(Range(ret)) = Len(ret)
             /\ \A x \in qualifying \ Range(ret), y \in Range(ret) :
                   chunks[x].score <= chunks[y].score]_vars

\* C30 witness: a call with limit 1 on a bucket that holds two qualifying
\* chunks, which returned the one with the higher score
C30_Witness ==
    /\ last.op = "getMemoriesFromBucket" /\ last.ok
    /\ last.limit = 1 /\ Len(last.ret) = 1
    /\ \E x \in DOMAIN chunks \ Range(last.ret) :
          /\ chunks[x].bucket = last.bucket
          /\ chunks[x].score >= last.minScore
          /\ chunks[x].score < chunks[last.ret[1]].score

\* the memory tables and the clock
MemoryTables == <<buckets, chunks, links, reflections, inits, nextId, now>>

\* every pending task getPendingTasks returns at time has its due time
\* behind it
OnlyDueTasks(call, table, time) ==
    \A i \in DOMAIN call.ret :
        \/ table[call.ret[i]].scheduledFor = None
        \/ table[call.ret[i]].scheduledFor[1] <= MinutesOf(time)

\* C27: every call of scheduleReflection hands off one PENDING task with
\* the scope, depth and focus areas of the call and a due time 5 minutes
\* after it, creates no reflection row and changes no chunk; and
\* getPendingTasks returns no task before its due time.
C27_SchedulesOneTask ==
    [][/\ Called("scheduleReflection") =>
            /\ last'.ok
            /\ Len(tasks') = Len(tasks) + 1
            /\ SubSeq(tasks', 1, Len(tasks)) = tasks
            /\ UNCHANGED MemoryTables
       /\ Called("getPendingTasks") => OnlyDueTasks(last', tasks, now)]_vars

\* C27 amended: a call of scheduleReflection made while an agent of type
\* CONDUCTOR exists hands off one PENDING task of that agent with the
\* scope, depth (medium when left out) and focus areas (none when left
\* out) of the call and a due time 5 minutes after the call; a call made
\* while there is none throws and hands off no task.  Neither creates a
\* reflection row or changes a chunk, and getPendingTasks returns no task
\* before its due time.
C27_SchedulesWithConductor ==
    [][/\ Called("scheduleReflection") =>
            /\ UNCHANGED MemoryTables
            /\ UNCHANGED agents
            /\ IF \E k \in DOMAIN agents : agents[k].type = "CONDUCTOR"
               THEN /\ last'.ok
                    /\ Len(tasks') = Len(tasks) + 1
                    /\ SubSeq(tasks', 1, Len(tasks)) = tasks
                    /\ last'.id = Len(tasks')
                    /\ LET task == tasks'[Len(tasks')]
                       IN  /\ task.status = "PENDING"
                           /\ task.type = "REFLECTION"
                           /\ agents[task.agentId].type = "CONDUCTOR"
                           /\ task.input.memoryScope = last'.scope
                           /\ task.input.reflectionDepth
                                 = (IF last'.arg[1][1] = None THEN "medium"
                                    ELSE last'.arg[1][1][1])
                           /\ task.input.focusAreas
                                 = (IF last'.arg[1][2] = None THEN <<>>
                                    ELSE last'.arg[1][2][1])
                           /\ task.scheduledFor = Some(60 * now + 5)
                           /\ ~IsDue(task, None, now)
               ELSE /\ ~last'.ok
                    /\ tasks' = tasks
       /\ Called("getPendingTasks") =>
            /\ OnlyDueTasks(last', tasks, now)
            /\ UNCHANGED <<running, MemoryTables, agents, tasks>>]_vars

\* C27 witness: a task scheduled while a chunk was stored, which
\* getPendingTasks did not return in the hour of the call
C27_Witness ==
    /\ last.op = "getPendingTasks"
    /\ last.ret = <<>>
    /\ chunks # <<>>
    /\ Len(tasks) = 1
    /\ tasks[1].scheduledFor[1] > MinutesOf(now)

\* the operations that neither create nor delete a chunk
KeepsChunks ==
    {"boostMemory", "getMemoriesFromBucket", "searchMemories",
     "createMemoryLink", "getMemoryLinks", "getMemoryStats",
     "initializeMemoryBuckets", "generateReflection", "scheduleReflection"}

\* C24: a step that adds a chunk is a call of addMemoryChunk and a step
\* that removes one is a run of applyMemoryDecay; a call of boostMemory,
\* getMemoriesFromBucket, searchMemories, createMemoryLink, getMemoryLinks,
\* getMemoryStats, initializeMemoryBuckets, generateReflection or
\* scheduleReflection leaves the set of chunks as it was; and no step
\* removes a bucket.
C24_OnlyAddAndDecay ==
    [][/\ DOMAIN chunks' \ DOMAIN chunks # {} => Called("addMemoryChunk")
       /\ DOMAIN chunks \ DOMAIN chunks' # {} => Called("applyMemoryDecay")
       /\ last'.op \in KeepsChunks => DOMAIN chunks' = DOMAIN chunks
       /\ DOMAIN buckets \subseteq DOMAIN buckets']_vars

\* C24 witness: the chunk addMemoryChunk created was boosted to a score
\* under the threshold and kept, and a run of applyMemoryDecay removed it
C24_Witness ==
    /\ last.op = "applyMemoryDecay"
    /\ last.counts.deleted = 1
    /\ nextId = 1
    /\ chunks = <<>>
    /\ buckets # <<>>

\* text is the insights joined with "; "
IsJoined(text, insights) ==
    /\ Len(text) = IF insights = <<>> THEN 0 ELSE 2 * Len(insights) - 1
    /\ \A k \in DOMAIN insights : text[2 * k - 1] = insights[k]
    /\ \A k \in 1..(Len(insights) - 1) : text[2 * k] = "; "

\* C25: a generateReflection that completed over a sample of n chunks
\* leaves the reflection rows there were as they were and adds min(n, 20)
\* rows: as many for a chunk as it stands among the first 20 of the
\* sample, each with the insight list the call returned, that list joined
\* with "; " as its text, and the conductor id of the call.
C25_OneRecordForTopTwenty ==
    [][(Called("generateReflection") /\ last'.fault = "none") =>
         LET before  == Len(reflections)
             saved   == Min(Len(last'.rows), 20)
             created == (before + 1)..Len(reflections')
         IN  /\ Len(reflections') = before + saved
             /\ SubSeq(reflections', 1, before) = reflections
             /\ \A id \in DOMAIN chunks \cup {last'.rows[k].id : k \in 1..saved} :
                   Cardinality({r \in created : reflections'[r].chunkId = id})
                       = Cardinality({k \in 1..saved : last'.rows[k].id = id})
             /\ \A r \in created :
                   /\ reflections'[r].insights = last'.insights
                   /\ IsJoined(reflections'[r].reflection, last'.insights)
                   /\ reflections'[r].conductorId = Conductor]_vars

\* C25 witness: a second reflection over more than 20 chunks added 20 rows
\* to the 20 of the first, whose insights were others
C25_Witness ==
    /\ last.op = "generateReflection" /\ last.fault = "none"
    /\ Len(last.rows) > 20
    /\ Len(reflections) = 40
    /\ reflections[1].insights # reflections[40].insights
    /\ Len(reflections[40].insights) > 1

\* the analysis an insight comes from: 1 patterns, 2 temporal, 3 topic,
\* 4 deep analysis, 5 metacognitive analysis
AnalysisOf(insight) ==
    CASE insight.kind \in {"sources", "reinforced"}     -> 1
      [] insight.kind \in {"recent", "week"}            -> 2
      [] insight.kind \in {"topics", "focus"}           -> 3
      [] insight.kind \in {"mostAccessed", "resistant"} -> 4
      [] insight.kind \in {"learning", "consolidated"}  -> 5

\* the insights of the five analyses of a sample, one after the other
AllInsights(memories, depth, focusAreas, time) ==
    identifyPatterns(memories)
        \o analyzeTemporalPatterns(memories, time)
        \o analyzeTopicClusters(memories, focusAreas)
        \o (IF depth # "shallow" THEN performDeepAnalysis(memories) ELSE <<>>)
        \o (IF depth = "deep" THEN performMetacognitiveAnalysis(memories)
            ELSE <<>>)

\* C26: the insights a reflection that completed returns are the first 5
\* (shallow), 10 (medium) or 15 (deep) of the insights of the pattern, the
\* temporal, the topic, the deep and the metacognitive analysis of the
\* sample, in that order, with no insight of the deep analysis at shallow
\* depth and none of the metacognitive analysis below deep depth.
C26_InsightsByDepth ==
    [][(Called("generateReflection") /\ last'.fault = "none") =>
         LET depth == last'.arg[1]
             cap   == CASE depth = "shallow" -> 5
                        [] depth = "medium"  -> 10
                        [] depth = "deep"    -> 15
             all   == AllInsights(last'.rows, depth, last'.focusAreas, now)
         IN  /\ Len(last'.insights) = Min(cap, Len(all))
             /\ last'.insights = SubSeq(all, 1, Len(last'.insights))
             /\ \A i, j \in DOMAIN last'.insights :
                   i < j => AnalysisOf(last'.insights[i])
                                <= AnalysisOf(last'.insights[j])
             /\ \A i \in DOMAIN last'.insights :
                   /\ AnalysisOf(last'.insights[i]) = 4 => depth # "shallow"
                   /\ AnalysisOf(last'.insights[i]) = 5 => depth = "deep"]_vars

\* C26 witness: a deep reflection whose analyses had more than 15
\* insights returned 15, the last of them the first of the metacognitive
\* analysis
C26_Witness ==
    /\ last.op = "generateReflection" /\ last.fault = "none"
    /\ last.arg = Some("deep")
    /\ Len(last.insights) = 15
    /\ last.insights[13].kind = "mostAccessed"
    /\ last.insights[15].kind = "learning"
    /\ Len(AllInsights(last.rows, "deep", last.focusAreas, now)) > 15

\* the token sets of the texts of two gathered chunks have a Jaccard
\* similarity above 0.7
AboveThreshold(a, b) ==
    LET words1 == Range(Split(ToLowerCase(a.row.text)))
        words2 == Range(Split(ToLowerCase(b.row.text)))
    IN  10 * Cardinality(words1 \cap words2) > 7 * Cardinality(words1 \cup words2)

\* the link table holds a link between the two gathered chunks
Linked(table, a, b) ==
    \E k \in DOMAIN table :
        {<<table[k].sourceId, table[k].targetId>>} \subseteq {<<a.id, b.id>>, <<b.id, a.id>>}

\* the positions in the sample of the two chunks a candidate joins
PositionsOf(connection) == <<connection.id[2] + 1, connection.id[3] + 1>>

\* position pair p comes before position pair q in the order of the loops
LoopsBefore(p, q) == p[1] < q[1] \/ (p[1] = q[1] /\ p[2] < q[2])

\* C28: discovery compares the chunk at position i of the sample with
\* those at the next 9 positions.  The candidates it finds are the
\* compared pairs with a Jaccard similarity of their token sets above 0.7
\* and no link between the two chunks in either direction, in the order
\* of the comparisons; it returns the first 10 of them, each of type
\* semantic, from the earlier chunk to the later, with the similarity as
\* its strength.
C28_CandidatesOfComparedPairs ==
    [][(Called("generateReflection") /\ last'.fault = "none") =>
         LET rows  == last'.rows
             found == last'.newConnections
             Compared(i, j) == i < j /\ j <= i + 9
             Emitted(i, j) ==
                 /\ Compared(i, j)
                 /\ AboveThreshold(rows[i], rows[j])
                 /\ ~Linked(links, rows[i], rows[j])
         IN  /\ Len(found) <= 10
             /\ \A k \in DOMAIN found :
                   LET i == PositionsOf(found[k])[1]
                       j == PositionsOf(found[k])[2]
                   IN  /\ {i, j} \subseteq DOMAIN rows
                       /\ Emitted(i, j)
                       /\ found[k].sourceId = rows[i].id
                       /\ found[k].targetId = rows[j].id
                       /\ found[k].linkType = "semantic"
                       /\ IsJaccard(found[k].strength, rows[i].row.text,
                                    rows[j].row.text)
             /\ \A k \in 1..(Len(found) - 1) :
                   LoopsBefore(PositionsOf(found[k]), PositionsOf(found[k + 1]))
             /\ \A i \in DOMAIN rows : \A j \in (i + 1)..Min(i + 9, Len(rows)) :
                   Emitted(i, j) =>
                       \/ \E k \in DOMAIN found : PositionsOf(found[k]) = <<i, j>>
                       \/ /\ Len(found) = 10
                          /\ LoopsBefore(PositionsOf(found[10]), <<i, j>>)]_vars

\* C28 witness: a reflection over more than 10 chunks returned 10
\* candidates; it left out a compared pair for the link there is from the
\* later chunk to the earlier, a pair of like texts for being 10 positions
\* apart, and a pair that qualified for coming after the tenth candidate
C28_Witness ==
    /\ last.op = "generateReflection" /\ last.fault = "none"
    /\ Len(last.newConnections) = 10
    /\ \E i, j \in DOMAIN last.rows :
          /\ i < j /\ j <= i + 9
          /\ LoopsBefore(<<i, j>>, PositionsOf(last.newConnections[10]))
          /\ AboveThreshold(last.rows[i], last.rows[j])
          /\ \E k \in DOMAIN links :
                /\ links[k].sourceId = last.rows[j].id
                /\ links[k].targetId = last.rows[i].id
    /\ \E i \in DOMAIN last.rows :
          /\ i + 10 \in DOMAIN last.rows
          /\ i < PositionsOf(last.newConnections[10])[1]
          /\ AboveThreshold(last.rows[i], last.rows[i + 10])
          /\ ~Linked(links, last.rows[i], last.rows[i + 10])
    /\ \E i, j \in DOMAIN last.rows :
          /\ i < j /\ j <= i + 9
          /\ LoopsBefore(PositionsOf(last.newConnections[10]), <<i, j>>)
          /\ AboveThreshold(last.rows[i], last.rows[j])
          /\ ~Linked(links, last.rows[i], last.rows[j])

\* 0.7 * score + 0.3 * lastAccessed.getTime() is greater for row a than
\* for row b.  With the scores in units of 1 / SCALE and the times in
\* hours that is 7 * (a.score - b.score) + 108000 * 1000000 *
\* (a.lastAccessed - b.lastAccessed) > 0, an hour being 3600000 ms
BlendedAbove(a, b) ==
    a.lastAccessed - b.lastAccessed
        > ((7 * (b.score - a.score)) \div 108000) \div 1000000

\* the chunks of the bucket a call read and marked as accessed
TakenFrom(before, after, bucketName) ==
    {id \in DOMAIN before :
        before[id].bucket = bucketName /\ after[id] # before[id]}

\* C29: a reflection takes at most 50 chunks from each bucket of its
\* scope and analyses at most 100 of the chunks it took, those with the
\* greatest 0.7 * score + 0.3 * time of last access, in descending order
\* of that key, so that of two chunks of equal score the one accessed
\* later comes first; and its insights are those of the sample so
\* gathered.
C29_GatherOrder ==
    [][(Called("generateReflection") /\ last'.fault = "none") =>
         LET rows == last'.rows
         IN  /\ Len(rows) <= 100
             /\ \A b \in DOMAIN buckets :
                   /\ Cardinality(TakenFrom(chunks, chunks', b)) <= 50
                   /\ TakenFrom(chunks, chunks', b) # {} => b \in Range(last'.scope)
             /\ \A k \in DOMAIN rows :
                   rows[k].id \in TakenFrom(chunks, chunks', rows[k].row.bucket)
             /\ \A i, j \in DOMAIN rows :
                   i < j =>
                     /\ ~BlendedAbove(rows[j].row, rows[i].row)
                     /\ rows[i].row.score = rows[j].row.score
                          => rows[i].row.lastAccessed >= rows[j].row.lastAccessed
             /\ \A id \in DOMAIN chunks :
                   (/\ id \in TakenFrom(chunks, chunks', chunks[id].bucket)
                    /\ \A k \in DOMAIN rows : rows[k].id # id)
                     => /\ Len(rows) = 100
                        /\ \A k \in DOMAIN rows :
                              ~BlendedAbove(chunks[id], rows[k].row)
             /\ last'.insights
                   = analyzeMemories(rows, last'.arg[1], last'.focusAreas, now)]_vars

\* C29 witness: a reflection over three buckets took 50 of the 51 chunks
\* of one that had the score to be taken, and kept 100 of the 101 it took;
\* in its sample a chunk stands before one of the same score accessed
\* earlier, and before one of a higher score accessed earlier
C29_Witness ==
    /\ last.op = "generateReflection" /\ last.fault = "none"
    /\ Len(last.rows) = 100
    /\ \E id \in DOMAIN chunks :
          /\ chunks[id].bucket = "episodic_stm"
          /\ chunks[id].score >= DefaultMinScore
          /\ chunks[id].accessCount = id % 5
          /\ Cardinality({k \in DOMAIN chunks :
                            /\ chunks[k].bucket = "episodic_stm"
                            /\ chunks[k].accessCount # k % 5}) = 50
    /\ \E id \in DOMAIN chunks :
          /\ chunks[id].accessCount # id % 5
          /\ \A k \in DOMAIN last.rows : last.rows[k].id # id
    /\ \E i \in DOMAIN last.rows : \E j \in (i + 1)..Len(last.rows) :
          /\ last.rows[i].row.score = last.rows[j].row.score
          /\ last.rows[i].row.lastAccessed > last.rows[j].row.lastAccessed
    /\ \E i \in DOMAIN last.rows : \E j \in (i + 1)..Len(last.rows) :
          /\ last.rows[i].row.score < last.rows[j].row.score
          /\ last.rows[i].row.lastAccessed > last.rows[j].row.lastAccessed

\* C31: the counts a run of applyMemoryDecay returns are those of what it
\* did: processed is the number of chunks there were when it started,
\* deleted the number of chunks it removed, so that the number of chunks
\* after it is the number before it less deleted, decayed the number of
\* chunks it kept with another score, and decayed + deleted is at most
\* processed.
C31_CountsMatchEffect ==
    [][Called("applyMemoryDecay") =>
         LET counts == last'.counts
         IN  /\ counts.processed = Cardinality(DOMAIN chunks)
             /\ counts.deleted
                   = Cardinality((DOMAIN chunks) \ (DOMAIN chunks'))
             /\ Cardinality(DOMAIN chunks')
                   = Cardinality(DOMAIN chunks) - counts.deleted
             /\ DOMAIN chunks' \subseteq DOMAIN chunks
             /\ counts.decayed
                   = Cardinality({id \in DOMAIN chunks' :
                                    chunks'[id].score # chunks[id].score})
             /\ counts.decayed + counts.deleted <= counts.processed]_vars

\* C31 witness: a run over two chunks deleted one and decayed the other
C31_Witness ==
    /\ last.op = "applyMemoryDecay"
    /\ last.counts = [processed |-> 2, decayed |-> 1, deleted |-> 1]
    /\ Cardinality(DOMAIN chunks) = 1

\* C34: after a generateReflection that completed, every link of
\* newConnections is a row of the link table, among the links
\* getMemoryLinks returns as outgoing for its source chunk and as incoming
\* for its target chunk.
C34_CandidatesStored ==
    [][(Called("generateReflection") /\ last'.fault = "none") =>
         \A k \in DOMAIN last'.newConnections :
            LET connection == last'.newConnections[k]
            IN  \E row \in DOMAIN links' :
                  /\ links'[row].sourceId = connection.sourceId
                  /\ links'[row].targetId = connection.targetId
                  /\ links'[row].linkType = connection.linkType
                  /\ row \in LinksFrom(links', connection.sourceId)
                  /\ row \in LinksTo(links', connection.targetId)]_vars

\* C37: a getMemoriesFromBucket with the default minScore and a limit
\* that is at least the number of chunks of the bucket, called after a
\* run of applyMemoryDecay, returns every chunk that run left in the
\* bucket.
C37_RetainedIsRetrievable ==
    [][(/\ last.op = "applyMemoryDecay"
        /\ Called("getMemoriesFromBucket") /\ last'.ok
        /\ last'.minScore = DefaultMinScore
        /\ last'.limit >= ChunkCount(chunks, last'.bucket)) =>
          \A id \in DOMAIN chunks :
              chunks[id].bucket = last'.bucket => id \in Range(last'.ret)]_vars

\* C38: a searchMemories that returned changed lastAccessed or
\* accessCount of no chunk but those in the list it returned.
C38_TracksOnlyReturned ==
    [][(Called("searchMemories") /\ last'.ok) =>
         \A id \in DOMAIN chunks :
            (\/ chunks'[id].lastAccessed # chunks[id].lastAccessed
             \/ chunks'[id].accessCount # chunks[id].accessCount)
                => id \in Range(last'.ret)]_vars

\* C39: a searchMemories that threw for a bucket name that is not
\* registered left every chunk as it was.
C39_FailedSearchChangesNothing ==
    [][(Called("searchMemories") /\ ~last'.ok) => chunks' = chunks]_vars

\* C40: generateReflection leaves the score and the decayRate of every
\* chunk as they were, and to every chunk it pulled from a bucket of its
\* scope (every chunk of its sample, and every chunk it changed) it adds 1
\* to accessCount and gives the time of the call as lastAccessed, whether
\* the call completed or returned the degraded result.
C40_PassIsOneAccess ==
    [][Called("generateReflection") =>
         /\ DOMAIN chunks' = DOMAIN chunks
         /\ \A id \in DOMAIN chunks :
               /\ chunks'[id].score = chunks[id].score
               /\ chunks'[id].decayRate = chunks[id].decayRate
               /\ (\/ chunks'[id] # chunks[id]
                   \/ \E k \in DOMAIN last'.rows : last'.rows[k].id = id)
                     => /\ chunks'[id].accessCount = chunks[id].accessCount + 1
                        /\ chunks'[id].lastAccessed = now]_vars

\* the callers whose boostMemory of chunk id has been applied
BoostsOf(id) ==
    {p \in DOMAIN running : /\ running[p].op = "boostMemory"
                            /\ running[p].pc = "done"
                            /\ running[p].id = id}

\* C32: two calls of boostMemory on the same chunk that run concurrently
\* are both applied, in whatever order their steps interleave: once both
\* have returned the chunk has the score it had before plus both amounts
\* and the accessCount it had before plus 2 (the two callers of the store
\* in use make one call each, so nothing else wrote the chunk)
C32_BothBoostsApplied ==
    \A id \in DOMAIN RaceStore :
        BoostsOf(id) = Callers =>
            /\ id \in DOMAIN chunks
            /\ chunks[id].score =
                   RaceStore[id].score + running[1].boost + running[2].boost
            /\ chunks[id].accessCount = RaceStore[id].accessCount + 2

\* both boosts of chunk 1 were applied, the second was called while the
\* first was in flight, and the amounts differ
C32_Witness ==
    /\ BoostsOf(1) = Callers
    /\ running[2].during = {1}
    /\ running[1].boost # running[2].boost
    /\ chunks[1].score = RaceStore[1].score + DefaultBoost + 5000

\* C36: a boost is never lost to a run of applyMemoryDecay whose findMany
\* had read the chunk and whose loop had not reached it when the boost was
\* applied: once both calls have returned, the chunk, if it is still in
\* the store, has at least the score the run computed for it plus the
\* amount of the boost, and the run did not delete the chunk if the row the
\* boost left decays to 0.05 or more
C36_BoostSurvivesDecay ==
    \A p \in DOMAIN running : \A q \in DOMAIN running :
        LET boost == running[p]
            scan  == running[q]
        IN  (/\ boost.op = "boostMemory"
             /\ boost.pc = "done"
             /\ q \in boost.stale
             /\ scan.pc = "done") =>
                /\ boost.id \in DOMAIN chunks =>
                       chunks[boost.id].score >=
                           scan.scores[boost.id] + boost.boost
                /\ NewScore(boost.row, now) >= DeleteThreshold =>
                       boost.id \notin scan.removed

\* the ids of the chunks a call of generateReflection read
RefersTo(call) ==
    {call.memories[k].id : k \in DOMAIN call.memories}
        \cup {call.page[k].id : k \in DOMAIN call.page}

\* the chunks the calls of applyMemoryDecay deleted
Pruned == UNION {running[q].removed : q \in DOMAIN running}

\* C35: a chunk that applyMemoryDecay deletes while a reflection pass or a
\* link query refers to it is a tolerable miss: a pass that read a chunk
\* the decay then deleted raises no error and returns its computed
\* insights, not the degraded result, and getMemoryLinks for the id of a
\* deleted chunk returns
C35_MissIsTolerated ==
    /\ \A p \in DOMAIN running :
          (/\ running[p].op = "generateReflection"
           /\ running[p].pc = "done"
           /\ RefersTo(running[p]) \cap Pruned # {}) =>
              /\ running[p].fault = "none"
              /\ running[p].result.insights # DegradedResult.insights
    /\ (last.op = "getMemoryLinks" /\ last.id \in Pruned) => last.ok

\* the chunk has been boosted or returned since the store was met
Used(id) ==
    /\ id \in DOMAIN chunks
    /\ chunks[id].accessCount # PruneStore[id].accessCount

\* C33: unused memory is eventually pruned: when time keeps advancing and
\* applyMemoryDecay keeps being run, every chunk is eventually deleted
\* unless it is boosted or returned by a retrieval
C33_UnusedIsPruned ==
    \A id \in DOMAIN PruneStore : <>(Used(id) \/ id \notin DOMAIN chunks)

\* no chunk was boosted or returned, and a run of applyMemoryDecay has
\* deleted the last of them
C33_Witness ==
    /\ steps = 0
    /\ last.op = "applyMemoryDecay"
    /\ last.counts.deleted > 0
    /\ DOMAIN chunks = {}

====
